---------------------------- MODULE Spec2Model ----------------------------
(***************************************************************************)
(* A model of pradyunsg/vendoring: the import rewriter and the vendor      *)
(* orchestrator (tasks/vendor.py), the removal of unwanted paths           *)
(* (utils.py), the license resolver (tasks/license.py), the update of the  *)
(* requirements file (tasks/update.py) and the interactive update          *)
(* (interactive.py).                                                       *)
(*                                                                         *)
(* Text is modelled by TLA+ strings, read character by character with Len  *)
(* and SubSeq, so that the regular expressions of the source are matched   *)
(* on characters, the way the re module matches them.                      *)
(***************************************************************************)
EXTENDS Integers, Sequences, FiniteSets, TLC

(***************************************************************************)
(* Bounds of the model.                                                    *)
(***************************************************************************)
\* The number of physical lines of a source file handed to the rewriter.
MaxLines == 2
\* The number of members of an archive.
MaxMembers == 2
\* The number of lines of a requirements file handed to update_requirements.
MaxReqLines == 2
\* The number of patterns of drop_paths handed to remove_unnecessary_items.
MaxDropPaths == 2
\* The number of top-level items of a destination handed to
\* detect_vendored_libs.
MaxItems == 4
\* The number of calls of fetch_licenses that follow one another.
MaxCalls == 2
\* The number of tasks entered and of messages logged in a run of the
\* user interface.
MaxTasks == 2
MaxLogged == 2

\* The number of lines the external process of run writes.
MaxWritten == 2

VARIABLES
    \* rewrite_file_imports: its parameters, the file system and its locals.
    item,                       \* the path of the file being rewritten
    namespace,                  \* the configured namespace
    vendored_libs,              \* the names of the vendored libraries
    additional_substitutions,   \* the user's {match, replace} rules
    disk,                       \* path -> the bytes of the file
    source,                     \* the bytes the file held at the call
    text,                       \* the local variable text
    pc,                         \* the position in rewrite_file_imports
    si,                         \* the index of the next substitution
    li,                         \* the index of the library being handled
    error,                      \* the VendoringError raised, if any
    log                         \* the steps taken so far, in order

VARIABLES
    \* LicenseExtractor.extract_license_from_artifact and the front end.
    artifact,                   \* the name of the downloaded artifact
    members,                    \* the archive's members: [name, data]
    dirs,                       \* the directories under the destination
    dest_files,                 \* path under the destination -> bytes
    license_directories,        \* library -> directory (the overrides)
    license_fallback_urls,      \* library -> URL
    licenses,                   \* the local variable licenses
    fi,                         \* the index of the next candidate
    dest,                       \* the destination computed last
    lpc,                        \* the position in the extraction
    raised,                     \* the class of the exception raised
    exit                        \* what the front end made of it

rewriteVars ==
    <<item, namespace, vendored_libs, additional_substitutions, disk, source,
      text, pc, si, li, error, log>>

licenseVars ==
    <<artifact, members, dirs, dest_files, license_directories,
      license_fallback_urls, licenses, fi, dest, lpc, raised, exit>>

\* The vendoring task: tasks/vendor.py, vendor_libraries.
VARIABLES
    config,             \* the Configuration of the run
    patches,            \* the *.patch files of config.patches_dir
    destination,        \* the files under config.destination: path -> bytes
    detected_libs,      \* the value of detect_vendored_libs
    pending_patches,    \* the patches the loop of apply_patches has yet to take
    pending_files,      \* the files the walk of rewrite_imports has yet to take
    vpc,                \* position in vendor_libraries
    vlog                \* the steps taken so far, with their outcome

vendorVars ==
    <<config, patches, destination, detected_libs, pending_patches,
      pending_files, vpc, vlog>>

\* Updating the requirements file: tasks/update.py, update_requirements.
VARIABLES
    requirements,       \* the text of the requirements file
    req_at_call,        \* the text the file held at the call
    package,            \* the package named on the command line, "" for None
    packages,           \* the local variable packages
    ui,                 \* the index of the package the loop is at
    upc,                \* position in update_requirements
    uerror              \* the class of the exception raised

updateVars == <<requirements, req_at_call, package, packages, ui, upc, uerror>>

\* The interactive update: interactive.py, interactive_updates.
VARIABLES
    skip,               \* the parameter skip
    only,               \* the parameter only
    from_start,         \* the parameter from_start
    fs,                 \* the files: requirements, marker, cache, news, vendored
    fs_at_call,         \* the files as they were at the call
    git,                \* the repository: HEAD, the index and the commits made
    state,              \* the InteractionState object
    resuming_from,      \* the local variable resuming_from: <<>> for None
    package_names,      \* the local variable package_names
    ii,                 \* the index of the package the loop is at
    doing,              \* the arguments of the do_one_update under way
    ipc,                \* position in interactive_updates
    ierror,             \* the class of the exception raised
    ilog                \* the steps taken so far, in order

interactiveVars ==
    <<skip, only, from_start, fs, fs_at_call, git, state, resuming_from,
      package_names, ii, doing, ipc, ierror, ilog>>

\* Removing what is not wanted: tasks/vendor.py, remove_unnecessary_items.
VARIABLES
    drop_paths,         \* the parameter drop_paths
    dest_tree,          \* the files and directories under the destination
    tree_at_call,       \* the same, as they were at the call
    drop_i,             \* the index of the pattern the loop is at
    dlog,               \* the steps taken so far, in order
    dpc                 \* position in remove_unnecessary_items

removeVars ==
    <<drop_paths, dest_tree, tree_at_call, drop_i, dlog, dpc>>

\* Detecting what was vendored: tasks/vendor.py, detect_vendored_libs.
VARIABLES
    protected_files,    \* the parameter files_to_skip
    top_tree,           \* the files and directories under the destination
    iterdir,            \* the items destination.iterdir() has yet to yield
    retval,             \* the local variable retval
    warned,             \* the items UI.warn was called for, in order
    detpc               \* position in detect_vendored_libs

detectVars == <<protected_files, top_tree, iterdir, retval, warned, detpc>>

\* Cleaning up what an earlier run vendored: tasks/cleanup.py.
VARIABLES
    old_exists,         \* destination.exists() at the call
    old_tree,           \* the files and directories under the destination
    old_at_call,        \* the same, as they were at the call
    old_protected,      \* config.protected_files
    old_iter,           \* the items destination.iterdir() has yet to yield
    yielded,            \* the items determine_items_to_remove yielded
    cpc                 \* position in cleanup_existing_vendored

cleanupVars ==
    <<old_exists, old_tree, old_at_call, old_protected, old_iter, yielded, cpc>>

\* Fetching the licenses: tasks/license.py, fetch_licenses.
VARIABLES
    tmp_dir,            \* the shared download directory: exists, artifacts
    pinned,             \* the packages of this call's requirements file
    licensed,           \* the libraries this call wrote license files of
    artifacts_left,     \* the artifacts tmp_dir.iterdir() has yet to yield
    calls,              \* the number of calls of fetch_licenses so far
    fpc,                \* position in fetch_licenses
    ferror              \* the class of the exception raised or pending

fetchVars == <<tmp_dir, pinned, licensed, artifacts_left, calls, fpc, ferror>>

\* The user interface: ui.py, _UserInterface.
VARIABLES
    UI,                 \* the _UserInterface object
    printed,            \* the calls of _log so far: text, nl, erase
    unwinding,          \* the exception on its way out of the task body
    indented,           \* a `with UI.indent()` block is open in the body
    entered_at,         \* the indentation when the task was entered
    task_messages,      \* the messages logged inside the task, as buffered
    task_from,          \* the number of calls of _log before the task
    last_op,            \* what was done last
    tasks,              \* the number of tasks entered so far
    logged              \* the number of calls of log so far

uiVars ==
    <<UI, printed, unwinding, indented, entered_at, task_messages, task_from,
      last_op, tasks, logged>>

\* The sync task: sync.py, run_sync, around vendor_libraries.
VARIABLES
    sync_tasks,         \* the tasks run_sync entered so far, in order
    spc                 \* position in run_sync

syncVars == <<sync_tasks, spc>>

\* run: utils.py, the external process and the loop that reads it.
VARIABLES
    written,            \* the lines the process wrote so far
    stdout,             \* the lines in the pipe, not yet read
    returncode,         \* <<>> while the process runs, <<code>> once it exited
    run_retcode,        \* the local retcode: <<>> is None
    run_line,           \* the local line
    run_logged,         \* the messages run passed to UI.log
    rpc                 \* position in run

runVars == <<written, stdout, returncode, run_retcode, run_line, run_logged, rpc>>

vars ==
    <<rewriteVars, licenseVars, vendorVars, updateVars, interactiveVars,
      removeVars, detectVars, cleanupVars, fetchVars, uiVars, syncVars,
      runVars>>

\* What an action of one component leaves alone: the other components.
rewriteFrame ==
    <<licenseVars, vendorVars, updateVars, interactiveVars, removeVars,
      detectVars, cleanupVars, fetchVars, uiVars, syncVars, runVars>>
licenseFrame ==
    <<rewriteVars, vendorVars, updateVars, interactiveVars, removeVars,
      detectVars, cleanupVars, fetchVars, uiVars, syncVars, runVars>>
vendorFrame ==
    <<rewriteVars, licenseVars, updateVars, interactiveVars, removeVars,
      detectVars, cleanupVars, fetchVars, uiVars, syncVars, runVars>>
updateFrame ==
    <<rewriteVars, licenseVars, vendorVars, interactiveVars, removeVars,
      detectVars, cleanupVars, fetchVars, uiVars, syncVars, runVars>>
interactiveFrame ==
    <<rewriteVars, licenseVars, vendorVars, updateVars, removeVars,
      detectVars, cleanupVars, fetchVars, uiVars, syncVars, runVars>>
removeFrame ==
    <<rewriteVars, licenseVars, vendorVars, updateVars, interactiveVars,
      detectVars, cleanupVars, fetchVars, uiVars, syncVars, runVars>>
detectFrame ==
    <<rewriteVars, licenseVars, vendorVars, updateVars, interactiveVars,
      removeVars, cleanupVars, fetchVars, uiVars, syncVars, runVars>>
cleanupFrame ==
    <<rewriteVars, licenseVars, vendorVars, updateVars, interactiveVars,
      removeVars, detectVars, fetchVars, uiVars, syncVars, runVars>>
fetchFrame ==
    <<rewriteVars, licenseVars, vendorVars, updateVars, interactiveVars,
      removeVars, detectVars, cleanupVars, uiVars, syncVars, runVars>>
uiFrame ==
    <<rewriteVars, licenseVars, vendorVars, updateVars, interactiveVars,
      removeVars, detectVars, cleanupVars, fetchVars, syncVars, runVars>>
syncFrame ==
    <<rewriteVars, licenseVars, vendorVars, updateVars, interactiveVars,
      removeVars, detectVars, cleanupVars, fetchVars, uiVars, runVars>>
runFrame ==
    <<rewriteVars, licenseVars, vendorVars, updateVars, interactiveVars,
      removeVars, detectVars, cleanupVars, fetchVars, uiVars, syncVars>>

(***************************************************************************)
(* Characters and strings.                                                 *)
(***************************************************************************)
\* The character of s at index i (1-based).
Ch(s, i) == SubSeq(s, i, i)

\* The class \s of the re module, over the characters of the model.
IsSpace(c) == c \in {" ", "\t", "\n", "\r", "\f"}

\* The class \d of the re module.
IsDigit(c) == c \in {"0", "1", "2", "3", "4", "5", "6", "7", "8", "9"}

\* The literal lit is matched at index i of s.
At(s, i, lit) ==
    /\ i >= 1
    /\ i + Len(lit) - 1 <= Len(s)
    /\ SubSeq(s, i, i + Len(lit) - 1) = lit

\* "sub in s" of Python: s holds sub at some index.
Contains(s, sub) == \E i \in 1..(Len(s) + 1) : At(s, i, sub)

\* The least element of a non-empty set of indices.
Least(S) == CHOOSE i \in S : \A j \in S : i <= j

\* \s* (greedy) from index i: the index of the first character that is no
\* white space, Len(s) + 1 when there is none.
SkipSpace(s, i) ==
    Least({j \in i..(Len(s) + 1) : j = Len(s) + 1 \/ ~IsSpace(Ch(s, j))})

\* \S* (greedy) from index i.
SkipNonSpace(s, i) ==
    Least({j \in i..(Len(s) + 1) : j = Len(s) + 1 \/ IsSpace(Ch(s, j))})

\* ^ under re.MULTILINE: the start of the text, or right after a line feed.
LineStart(s, i) == i = 1 \/ Ch(s, i - 1) = "\n"

\* text.count("\n", 0, start) for the 1-based index i = start + 1.
CountNewlines(s, i) == Cardinality({j \in 1..(i - 1) : Ch(s, j) = "\n"})

(***************************************************************************)
(* Path.read_text and Path.write_text.  read_text opens the file in text  *)
(* mode with universal newlines: "\r\n" and a lone "\r" are read as "\n".  *)
(* write_text on a POSIX system writes "\n" as it is.                      *)
(***************************************************************************)
RECURSIVE TranslateNewlines(_, _)
TranslateNewlines(bytes, p) ==
    LET n == Len(bytes)
        r == Least({j \in p..(n + 1) : j = n + 1 \/ Ch(bytes, j) = "\r"})
    IN  IF r > n THEN SubSeq(bytes, p, n)
        ELSE SubSeq(bytes, p, r - 1) \o "\n"
                \o TranslateNewlines(bytes, IF At(bytes, r, "\r\n") THEN r + 2 ELSE r + 1)

read_text(bytes) == TranslateNewlines(bytes, 1)

write_text(txt) == txt

(***************************************************************************)
(* The user's substitutions: re.sub(pattern, substitution, text).  The    *)
(* patterns of the model are a literal, or a literal followed by the group *)
(* (\d), whose digit the replacement's \1 copies (tests/test_vendor.py).   *)
(***************************************************************************)
DigitGroup == "(\\d)"
GroupRef == "\\1"

HasDigitGroup(pattern) ==
    /\ Len(pattern) > Len(DigitGroup)
    /\ At(pattern, Len(pattern) - Len(DigitGroup) + 1, DigitGroup)

PatternLiteral(pattern) ==
    IF HasDigitGroup(pattern)
    THEN SubSeq(pattern, 1, Len(pattern) - Len(DigitGroup))
    ELSE pattern

\* The index after the match of pattern at p, 0 when it does not match there.
MatchUser(pattern, s, p) ==
    LET lit == PatternLiteral(pattern)
        e == p + Len(lit)
    IN  IF ~At(s, p, lit) THEN 0
        ELSE IF ~HasDigitGroup(pattern) THEN e
        ELSE IF e <= Len(s) /\ IsDigit(Ch(s, e)) THEN e + 1
        ELSE 0

\* The replacement template expanded for the match s[p..e-1].
ExpandUser(pattern, substitution, s, p, e) ==
    IF HasDigitGroup(pattern) /\ Len(substitution) >= Len(GroupRef)
       /\ At(substitution, Len(substitution) - Len(GroupRef) + 1, GroupRef)
    THEN SubSeq(substitution, 1, Len(substitution) - Len(GroupRef)) \o Ch(s, e - 1)
    ELSE substitution

\* re.sub: the leftmost matches, not overlapping, each replaced; the text
\* between two matches is copied.
RECURSIVE UserSubFrom(_, _, _, _)
UserSubFrom(pattern, substitution, s, p) ==
    LET n == Len(s)
        m == Least({j \in p..(n + 1) : j = n + 1 \/ MatchUser(pattern, s, j) # 0})
    IN  IF m > n THEN SubSeq(s, p, n)
        ELSE LET e == MatchUser(pattern, s, m)
             IN  SubSeq(s, p, m - 1) \o ExpandUser(pattern, substitution, s, m, e)
                     \o UserSubFrom(pattern, substitution, s, e)

UserSub(di, txt) == UserSubFrom(di.match, di.replace, txt, 1)

(***************************************************************************)
(* The four regular expressions of rewrite_file_imports.  Each Match       *)
(* operator gives the index after the match that starts at p, 0 when the   *)
(* expression does not match at p.                                         *)
(***************************************************************************)
\* ^(\s*)import {lib}(\s|$)
MatchImport(lib, s, p) ==
    LET q == SkipSpace(s, p)
        lit == "import " \o lib
        e == q + Len(lit)
    IN  IF ~(LineStart(s, p) /\ At(s, q, lit)) THEN 0
        ELSE IF e <= Len(s) /\ IsSpace(Ch(s, e)) THEN e + 1
        ELSE IF e = Len(s) + 1 THEN e
        ELSE 0

\* \1from {namespace} import {lib}\2
ExpandImport(ns, lib, s, p, e) ==
    LET q == SkipSpace(s, p)
        g2 == q + Len("import " \o lib)
    IN  SubSeq(s, p, q - 1) \o "from " \o ns \o " import " \o lib
            \o SubSeq(s, g2, e - 1)

RECURSIVE SubImportFrom(_, _, _, _)
SubImportFrom(ns, lib, s, p) ==
    LET n == Len(s)
        m == Least({j \in p..(n + 1) : j = n + 1 \/ MatchImport(lib, s, j) # 0})
    IN  IF m > n THEN SubSeq(s, p, n)
        ELSE LET e == MatchImport(lib, s, m)
             IN  SubSeq(s, p, m - 1) \o ExpandImport(ns, lib, s, m, e)
                     \o SubImportFrom(ns, lib, s, e)

\* Normal case "import a".
SubImport(ns, lib, txt) == SubImportFrom(ns, lib, txt, 1)

\* ^(\s*)import {lib}(\.\S+)(?=\s+as)
MatchImportAs(lib, s, p) ==
    LET q == SkipSpace(s, p)
        lit == "import " \o lib \o "."
        r == q + Len(lit)
        e == SkipNonSpace(s, r)
        w == SkipSpace(s, e)
    IN  IF LineStart(s, p) /\ At(s, q, lit) /\ e > r /\ w > e /\ At(s, w, "as")
        THEN e
        ELSE 0

\* \1import {namespace}.{lib}\2
ExpandImportAs(ns, lib, s, p, e) ==
    LET q == SkipSpace(s, p)
        g2 == q + Len("import " \o lib)
    IN  SubSeq(s, p, q - 1) \o "import " \o ns \o "." \o lib
            \o SubSeq(s, g2, e - 1)

RECURSIVE SubImportAsFrom(_, _, _, _)
SubImportAsFrom(ns, lib, s, p) ==
    LET n == Len(s)
        m == Least({j \in p..(n + 1) : j = n + 1 \/ MatchImportAs(lib, s, j) # 0})
    IN  IF m > n THEN SubSeq(s, p, n)
        ELSE LET e == MatchImportAs(lib, s, m)
             IN  SubSeq(s, p, m - 1) \o ExpandImportAs(ns, lib, s, m, e)
                     \o SubImportAsFrom(ns, lib, s, e)

\* Special case "import a.b as b".
SubImportAs(ns, lib, txt) == SubImportAsFrom(ns, lib, txt, 1)

\* ^\s*(import {lib}\.\S+)
MatchDotted(lib, s, p) ==
    LET q == SkipSpace(s, p)
        lit == "import " \o lib \o "."
        r == q + Len(lit)
        e == SkipNonSpace(s, r)
    IN  IF LineStart(s, p) /\ At(s, q, lit) /\ e > r THEN e ELSE 0

\* re.search: the leftmost index at which the expression matches, 0 for None.
SearchDotted(lib, txt) ==
    LET starts == {p \in 1..Len(txt) : MatchDotted(lib, txt, p) # 0}
    IN  IF starts = {} THEN 0 ELSE Least(starts)

\* text.count("\n", 0, match.start()) + 1
line_number(txt, start) == CountNewlines(txt, start) + 1

\* match.group(1)
DottedGroup(lib, txt, start) ==
    SubSeq(txt, SkipSpace(txt, start), MatchDotted(lib, txt, start) - 1)

\* ^(\s*)from {lib}(\.|\s)
MatchFrom(lib, s, p) ==
    LET q == SkipSpace(s, p)
        lit == "from " \o lib
        e == q + Len(lit)
    IN  IF LineStart(s, p) /\ At(s, q, lit) /\ e <= Len(s)
           /\ (Ch(s, e) = "." \/ IsSpace(Ch(s, e)))
        THEN e + 1
        ELSE 0

\* A slip in the replacement template: the namespace is left out.
ExpandFromBare(ns, lib, s, p, e) ==
    LET q == SkipSpace(s, p)
    IN  SubSeq(s, p, q - 1) \o "from " \o lib \o Ch(s, e - 1)

\* \1from {namespace}.{lib}\2
ExpandFrom(ns, lib, s, p, e) ==
    LET q == SkipSpace(s, p)
    IN  SubSeq(s, p, q - 1) \o "from " \o ns \o "." \o lib \o Ch(s, e - 1)

RECURSIVE SubFromFrom(_, _, _, _)
SubFromFrom(ns, lib, s, p) ==
    LET n == Len(s)
        m == Least({j \in p..(n + 1) : j = n + 1 \/ MatchFrom(lib, s, j) # 0})
    IN  IF m > n THEN SubSeq(s, p, n)
        ELSE LET e == MatchFrom(lib, s, m)
             IN  SubSeq(s, p, m - 1) \o ExpandFrom(ns, lib, s, m, e)
                     \o SubFromFrom(ns, lib, s, e)

\* Normal case "from a import b".
SubFrom(ns, lib, txt) == SubFromFrom(ns, lib, txt, 1)

(***************************************************************************)
(* rewrite_file_imports, step by step.                                     *)
(***************************************************************************)
\* The inputs of the model: files of at most MaxLines lines of LinePool.
LinePool ==
    { "import six\n", "import six # c\n", "import six as s\n",
      "from six import name1\n", "from six.moves import x\n",
      "import six.moves as m\n", "import six.moves\n",
      "import sixty_four\n", "from sixty_four import x\n",
      "from x import sixty_four\n",
      "import other\n", "assert x\n", "x = 1\r\n", "\n", "import six" }

RECURSIVE FilesOf(_)
FilesOf(n) ==
    IF n = 0 THEN {""}
    ELSE LET shorter == FilesOf(n - 1)
         IN  shorter \cup {f \o l : f \in shorter, l \in LinePool}

Files == FilesOf(MaxLines)

Namespaces == {"", "ns"}

LibraryLists == {<<"six">>, <<"other", "six">>}

SubstitutionLists ==
    { <<>>,
      <<[match |-> "name(\\d)", replace |-> "NAME\\1"]>>,
      <<[match |-> "sixty_four", replace |-> "six"],
        [match |-> "six as s", replace |-> "six.moves"]>> }

NoError == [file |-> "", line |-> 0, statement |-> ""]

\* A slip: the test of the empty namespace is left out.
LibsNextAnyNamespace(i) ==
    IF i <= Len(vendored_libs) THEN "import" ELSE "write"

\* if namespace != "": for lib in vendored_libs: the position before the
\* i-th library, the write after the last one.
LibsNext(i) ==
    IF namespace # "" /\ i <= Len(vendored_libs) THEN "import" ELSE "write"

\* A slip: the loop over the rules is left after the first rule.
SubsNextFirstOnly(i) ==
    IF i <= 1 /\ i <= Len(additional_substitutions)
    THEN "substitute" ELSE LibsNext(1)

\* for di in additional_substitutions: the position before the i-th rule,
\* the rewriting after the last one.
SubsNext(i) ==
    IF i <= Len(additional_substitutions) THEN "substitute" ELSE LibsNext(1)

Step(op, arg) == [op |-> op, arg |-> arg]

RewriteInit ==
    /\ item = "module.py"
    /\ namespace \in Namespaces
    /\ vendored_libs \in LibraryLists
    /\ additional_substitutions \in SubstitutionLists
    /\ source \in Files
    /\ disk = [p \in {item} |-> source]
    /\ text = ""
    /\ pc = "read"
    /\ si = 1
    /\ li = 1
    /\ error = NoError
    /\ log = <<>>

\* text = item.read_text(encoding="utf-8")
ReadText ==
    /\ pc = "read"
    /\ text' = read_text(disk[item])
    /\ pc' = SubsNext(1)
    /\ log' = Append(log, Step("read", item))
    /\ UNCHANGED <<item, namespace, vendored_libs, additional_substitutions,
                   disk, source, si, li, error>>
    /\ UNCHANGED rewriteFrame

\* text = re.sub(pattern, substitution, text)
Substitute ==
    /\ pc = "substitute"
    /\ text' = UserSub(additional_substitutions[si], text)
    /\ si' = si + 1
    /\ pc' = SubsNext(si + 1)
    /\ log' = Append(log, Step("substitute", si))
    /\ UNCHANGED <<item, namespace, vendored_libs, additional_substitutions,
                   disk, source, li, error>>
    /\ UNCHANGED rewriteFrame

\* Normal case "import a"
RewriteImport ==
    /\ pc = "import"
    /\ text' = SubImport(namespace, vendored_libs[li], text)
    /\ pc' = "import_as"
    /\ log' = Append(log, Step("import", vendored_libs[li]))
    /\ UNCHANGED <<item, namespace, vendored_libs, additional_substitutions,
                   disk, source, si, li, error>>
    /\ UNCHANGED rewriteFrame

\* Special case "import a.b as b"
RewriteImportAs ==
    /\ pc = "import_as"
    /\ text' = SubImportAs(namespace, vendored_libs[li], text)
    /\ pc' = "check"
    /\ log' = Append(log, Step("import_as", vendored_libs[li]))
    /\ UNCHANGED <<item, namespace, vendored_libs, additional_substitutions,
                   disk, source, si, li, error>>
    /\ UNCHANGED rewriteFrame

\* Error on "import a.b": this cannot be rewritten
CheckDotted ==
    /\ pc = "check"
    /\ LET lib == vendored_libs[li]
           start == SearchDotted(lib, text)
       IN  IF start # 0
           THEN /\ error' = [file |-> item,
                             line |-> line_number(text, start),
                             statement |-> DottedGroup(lib, text, start)]
                /\ pc' = "raised"
           ELSE /\ error' = error
                /\ pc' = "from"
    /\ log' = Append(log, Step("check", vendored_libs[li]))
    /\ UNCHANGED <<item, namespace, vendored_libs, additional_substitutions,
                   disk, source, text, si, li>>
    /\ UNCHANGED rewriteFrame

\* Normal case "from a import b"
RewriteFrom ==
    /\ pc = "from"
    /\ text' = SubFrom(namespace, vendored_libs[li], text)
    /\ li' = li + 1
    /\ pc' = LibsNext(li + 1)
    /\ log' = Append(log, Step("from", vendored_libs[li]))
    /\ UNCHANGED <<item, namespace, vendored_libs, additional_substitutions,
                   disk, source, si, error>>
    /\ UNCHANGED rewriteFrame

\* item.write_text(text, encoding="utf-8")
WriteText ==
    /\ pc = "write"
    /\ disk' = [disk EXCEPT ![item] = write_text(text)]
    /\ pc' = "returned"
    /\ log' = Append(log, Step("write", item))
    /\ UNCHANGED <<item, namespace, vendored_libs, additional_substitutions,
                   source, text, si, li, error>>
    /\ UNCHANGED rewriteFrame

\* The license resolver at rest, while the rewriter runs.
LicenseIdle ==
    /\ artifact = ""
    /\ members = <<>>
    /\ dirs = {}
    /\ dest_files = [f \in {} |-> ""]
    /\ license_directories = [l \in {} |-> ""]
    /\ license_fallback_urls = [l \in {} |-> ""]
    /\ licenses = <<>>
    /\ fi = 1
    /\ dest = [library |-> "", filename |-> "", path |-> ""]
    /\ lpc = "idle"
    /\ raised = ""
    /\ exit = ""

NoConfig ==
    [requirements |-> "", drop_paths |-> <<>>, protected_files |-> {},
     patches_dir |-> "", namespace |-> "", substitute |-> <<>>]

\* The vendoring task at rest, while another component runs.
VendorIdle ==
    /\ config = NoConfig
    /\ patches = {}
    /\ destination = [f \in {} |-> ""]
    /\ detected_libs = <<>>
    /\ pending_patches = {}
    /\ pending_files = {}
    /\ vpc = "idle"
    /\ vlog = <<>>

\* update_requirements at rest, while another component runs.
UpdateIdle ==
    /\ requirements = ""
    /\ req_at_call = ""
    /\ package = ""
    /\ packages = <<>>
    /\ ui = 1
    /\ upc = "idle"
    /\ uerror = ""

NoFiles ==
    [requirements |-> "", vendored |-> "", news |-> [n \in {} |-> ""],
     state_file |-> <<>>, cache_exists |-> FALSE, cache_others |-> FALSE]

NoState == [packages |-> [n \in {} |-> ""], package_order |-> <<>>,
            current_package |-> <<>>]

NoUpdate == [name |-> "", version |-> "", resume |-> FALSE]

\* interactive_updates at rest, while another component runs.
InteractiveIdle ==
    /\ skip = <<>>
    /\ only = <<>>
    /\ from_start = FALSE
    /\ fs = NoFiles
    /\ fs_at_call = NoFiles
    /\ git = [head |-> [f \in {} |-> ""], index |-> [f \in {} |-> ""], commits |-> <<>>]
    /\ state = NoState
    /\ resuming_from = <<>>
    /\ package_names = <<>>
    /\ ii = 1
    /\ doing = NoUpdate
    /\ ipc = "idle"
    /\ ierror = ""
    /\ ilog = <<>>

\* remove_unnecessary_items at rest, while another component runs.
RemoveIdle ==
    /\ drop_paths = <<>>
    /\ dest_tree = [f \in {} |-> ""]
    /\ tree_at_call = [f \in {} |-> ""]
    /\ drop_i = 1
    /\ dlog = <<>>
    /\ dpc = "idle"

\* detect_vendored_libs at rest, while another component runs.
DetectIdle ==
    /\ protected_files = {}
    /\ top_tree = [f \in {} |-> ""]
    /\ iterdir = <<>>
    /\ retval = <<>>
    /\ warned = <<>>
    /\ detpc = "idle"

\* cleanup_existing_vendored at rest, while another component runs.
CleanupIdle ==
    /\ old_exists = FALSE
    /\ old_tree = [f \in {} |-> ""]
    /\ old_at_call = [f \in {} |-> ""]
    /\ old_protected = {}
    /\ old_iter = <<>>
    /\ yielded = <<>>
    /\ cpc = "idle"

\* fetch_licenses at rest, while another component runs.
FetchIdle ==
    /\ tmp_dir = [exists |-> FALSE, artifacts |-> {}]
    /\ pinned = {}
    /\ licensed = {}
    /\ artifacts_left = {}
    /\ calls = 0
    /\ fpc = "idle"
    /\ ferror = ""

\* _UserInterface.__init__
NewUI(verbose) ==
    [verbose |-> verbose, _indentation |-> 0, _current_task |-> <<>>,
     _logged_messages |-> <<>>, _spinner |-> 0]

\* The user interface at rest, while another component runs.
UIIdle ==
    /\ UI = NewUI(FALSE)
    /\ printed = <<>>
    /\ unwinding = ""
    /\ indented = FALSE
    /\ entered_at = 0
    /\ task_messages = <<>>
    /\ task_from = 0
    /\ last_op = [op |-> "idle", exc |-> ""]
    /\ tasks = 0
    /\ logged = 0

\* run_sync at rest, while another component runs.
SyncIdle ==
    /\ sync_tasks = <<>>
    /\ spc = "idle"

\* run at rest, while another component runs.
RunIdle ==
    /\ written = <<>>
    /\ stdout = <<>>
    /\ returncode = <<>>
    /\ run_retcode = <<>>
    /\ run_line = ""
    /\ run_logged = <<>>
    /\ rpc = "idle"

Init == RewriteInit /\ LicenseIdle /\ VendorIdle /\ UpdateIdle /\ InteractiveIdle
    /\ RemoveIdle
    /\ DetectIdle
    /\ CleanupIdle
    /\ FetchIdle
    /\ UIIdle
    /\ SyncIdle
    /\ RunIdle

Next ==
    \/ ReadText
    \/ Substitute
    \/ RewriteImport
    \/ RewriteImportAs
    \/ CheckDotted
    \/ RewriteFrom
    \/ WriteText

Spec == Init /\ [][Next]_vars

(***************************************************************************)
(* The license resolver: tasks/license.py.                                 *)
(***************************************************************************)
\* The rewriter at rest, while the license resolver runs.
RewriteIdle ==
    /\ item = ""
    /\ namespace = ""
    /\ vendored_libs = <<>>
    /\ additional_substitutions = <<>>
    /\ disk = [f \in {} |-> ""]
    /\ source = ""
    /\ text = ""
    /\ pc = "idle"
    /\ si = 1
    /\ li = 1
    /\ error = NoError
    /\ log = <<>>

EndsWith(s, suffix) == At(s, Len(s) - Len(suffix) + 1, suffix)

\* _open_archive: the kind of archive by the suffixes of the artifact, or
\* the class of the exception raised.
ArchiveKind(name) ==
    IF EndsWith(name, ".zip") \/ EndsWith(name, ".whl") THEN "zip"
    ELSE IF EndsWith(name, ".gz")
    THEN (IF EndsWith(name, ".tar.gz") THEN "tar" ELSE "AssertionError")
    ELSE "Exception"

\* The indices at which a part of artifact_name.split("-") starts.
PartStarts(name) == {1} \cup {i \in 2..Len(name) : Ch(name, i - 1) = "-"}

\* _get_library_name_from_artifact_name: the parts before the first part
\* that starts with a digit, joined by "-" again.
_get_library_name_from_artifact_name(artifact_name) ==
    LET versions == {i \in PartStarts(artifact_name) : IsDigit(Ch(artifact_name, i))}
    IN  IF versions = {} THEN artifact_name
        ELSE SubSeq(artifact_name, 1, Least(versions) - 2)

\* A slip: only a whole path segment named test is taken for a test path.
IsTestPathWholeSegment(name) ==
    \E i \in 2..Len(name) :
        /\ Ch(name, i - 1) = "/"
        /\ At(name, i, "test")
        /\ (i + 4 > Len(name) \/ Ch(name, i + 4) = "/")

\* if "/test" in name
IsTestPath(name) == Contains(name, "/test")

\* if "LICENSE" in name or "COPYING" in name: if "/test" in name: continue
IsLicense(name) ==
    (Contains(name, "LICENSE") \/ Contains(name, "COPYING")) /\ ~IsTestPath(name)

\* find_licenses: the members it yields, in the order of the archive.
find_licenses(ms) == SelectSeq(ms, LAMBDA m : IsLicense(m.name))

\* str.lower, on the letters of the model.
UpperCase == "ABCDEFGHIJKLMNOPQRSTUVWXYZ"
LowerCase == "abcdefghijklmnopqrstuvwxyz"

LowerChar(c) ==
    IF \E k \in 1..Len(UpperCase) : Ch(UpperCase, k) = c
    THEN Ch(LowerCase, CHOOSE k \in 1..Len(UpperCase) : Ch(UpperCase, k) = c)
    ELSE c

RECURSIVE lower(_)
lower(s) == IF s = "" THEN "" ELSE LowerChar(Ch(s, 1)) \o lower(SubSeq(s, 2, Len(s)))

\* Path(name).name, and url.rpartition("/")[2]: what follows the last "/".
BaseName(name) ==
    LET slashes == {i \in 1..Len(name) : Ch(name, i) = "/"}
    IN  IF slashes = {} THEN name
        ELSE SubSeq(name, (CHOOSE i \in slashes : \A j \in slashes : j <= i) + 1, Len(name))

\* A slip: the override is looked up before the directories.
get_license_destination_override_first(library, filename) ==
    IF library \in DOMAIN license_directories
    THEN license_directories[library] \o "/" \o filename
    ELSE IF library \in dirs THEN library \o "/" \o filename
    ELSE IF lower(library) \in dirs THEN lower(library) \o "/" \o filename
    ELSE library \o "." \o filename

\* get_license_destination, as a path relative to the destination.
get_license_destination(library, filename) ==
    IF library \in dirs THEN library \o "/" \o filename
    ELSE IF lower(library) \in dirs THEN lower(library) \o "/" \o filename
    ELSE IF library \in DOMAIN license_directories
    THEN license_directories[library] \o "/" \o filename
    ELSE library \o "." \o filename

\* The directory a path relative to the destination lies in, "" for the
\* destination itself.
Parent(path) == SubSeq(path, 1, Len(path) - Len(BaseName(path)) - 1)

\* dest.write_bytes needs the directory of dest to exist.
CanWrite(path) == Parent(path) = "" \/ Parent(path) \in dirs

\* The inputs of the model.
ArtifactNames == {"Foo-1.0-py3-none-any.whl", "foo-2.1.tar.gz", "Foo-1.0.tar.bz2"}

MemberNames ==
    { "Foo-1.0/LICENSE", "Foo-1.0/LICENSE.APACHE", "Foo-1.0/docs/LICENSE",
      "Foo-1.0/COPYING.txt", "Foo-1.0/tests/LICENSE", "Foo-1.0/test/LICENSE",
      "test/COPYING", "Foo-1.0/contest/LICENSE", "Foo-1.0/license.txt" }

\* The bytes of the member called name.
DataOf(name) == "<" \o name \o ">"

RECURSIVE ArchivesOf(_)
ArchivesOf(n) ==
    IF n = 0 THEN {<<>>}
    ELSE LET shorter == ArchivesOf(n - 1)
         IN  shorter \cup
             { Append(a, [name |-> m, data |-> DataOf(m)]) :
                 a \in shorter, m \in MemberNames }

\* An archive holds no two members of the same name.
Archives ==
    { a \in ArchivesOf(MaxMembers) :
        \A i, j \in 1..Len(a) : i # j => a[i].name # a[j].name }

DirectorySets == {{}, {"foo"}, {"licenses"}, {"Foo", "licenses"}, {"foo", "licenses"}}

Overrides == {[l \in {} |-> ""], [l \in {"Foo"} |-> "licenses"]}

FallbackUrls ==
    {[l \in {} |-> ""], [l \in {"Foo"} |-> "https://example.org/Foo/LICENSE.txt"]}

\* The classes of errors.py: VendoringError and its subclasses.
VendoringErrors == {"VendoringError", "ConfigurationError", "RequirementsError"}

NoDestination == [library |-> "", filename |-> "", path |-> ""]

LicenseInit ==
    /\ artifact \in ArtifactNames
    /\ members \in Archives
    /\ dirs \in DirectorySets
    /\ dest_files = [f \in {} |-> ""]
    /\ license_directories \in Overrides
    /\ license_fallback_urls \in FallbackUrls
    /\ licenses = <<>>
    /\ fi = 1
    /\ dest = NoDestination
    /\ lpc = "open"
    /\ raised = ""
    /\ exit = ""

\* with _open_archive(artifact) as archive_info:
\*     licenses = list(self.find_licenses(files))
OpenArchive ==
    /\ lpc = "open"
    /\ IF ArchiveKind(artifact) \in {"zip", "tar"}
       THEN /\ licenses' = find_licenses(members)
            /\ lpc' = IF licenses' # <<>> THEN "extract" ELSE "fallback"
            /\ raised' = raised
       ELSE /\ licenses' = licenses
            /\ lpc' = "raised"
            /\ raised' = ArchiveKind(artifact)
    /\ UNCHANGED <<artifact, members, dirs, dest_files, license_directories,
                   license_fallback_urls, fi, dest, exit>>
    /\ UNCHANGED licenseFrame

\* for found in licenses: self.extract_license_member(artifact, archive, found)
ExtractLicenseMember ==
    /\ lpc = "extract"
    /\ LET member == licenses[fi]
           library_name == _get_library_name_from_artifact_name(artifact)
           license_filename == BaseName(member.name)
           d == get_license_destination(library_name, license_filename)
       IN  /\ dest' = [library |-> library_name, filename |-> license_filename,
                        path |-> d]
           /\ IF CanWrite(d)
              THEN /\ dest_files' =
                        [f \in DOMAIN dest_files \cup {d} |->
                            IF f = d THEN member.data ELSE dest_files[f]]
                   /\ fi' = fi + 1
                   /\ lpc' = IF fi + 1 <= Len(licenses) THEN "extract" ELSE "returned"
                   /\ raised' = raised
              ELSE /\ dest_files' = dest_files
                   /\ fi' = fi
                   /\ lpc' = "raised"
                   /\ raised' = "FileNotFoundError"
    /\ UNCHANGED <<artifact, members, dirs, license_directories,
                   license_fallback_urls, licenses, exit>>
    /\ UNCHANGED licenseFrame

\* if not licenses: self.use_license_fallback(artifact.name)
\* The answer of the server (requests.get, raise_for_status) is an input.
UseLicenseFallback ==
    /\ lpc = "fallback"
    /\ LET library_name == _get_library_name_from_artifact_name(artifact)
       IN  IF library_name \notin DOMAIN license_fallback_urls
           THEN /\ lpc' = "raised"
                /\ raised' = "ValueError"
                /\ UNCHANGED <<dest, dest_files>>
           ELSE LET url == license_fallback_urls[library_name]
                    d == get_license_destination(library_name, BaseName(url))
                IN  /\ dest' = [library |-> library_name, filename |-> BaseName(url),
                                 path |-> d]
                    /\ \E answer \in {"ok", "HTTPError"} :
                          IF answer # "ok"
                          THEN /\ lpc' = "raised"
                               /\ raised' = answer
                               /\ dest_files' = dest_files
                          ELSE IF CanWrite(d)
                          THEN /\ lpc' = "returned"
                               /\ raised' = raised
                               /\ dest_files' =
                                    [f \in DOMAIN dest_files \cup {d} |->
                                        IF f = d THEN DataOf(url) ELSE dest_files[f]]
                          ELSE /\ lpc' = "raised"
                               /\ raised' = "FileNotFoundError"
                               /\ dest_files' = dest_files
    /\ UNCHANGED <<artifact, members, dirs, license_directories,
                   license_fallback_urls, licenses, fi, exit>>
    /\ UNCHANGED licenseFrame

\* cli.sync: except VendoringError as e: UI.show_error(e); sys.exit(1).
\* Any other exception leaves the command uncaught.
SyncHandlesError ==
    /\ lpc = "raised"
    /\ exit = ""
    /\ exit' = IF raised \in VendoringErrors THEN "show_error" ELSE "uncaught"
    /\ UNCHANGED <<artifact, members, dirs, dest_files, license_directories,
                   license_fallback_urls, licenses, fi, dest, lpc, raised>>
    /\ UNCHANGED licenseFrame

LicenseNext ==
    \/ OpenArchive
    \/ ExtractLicenseMember
    \/ UseLicenseFallback
    \/ SyncHandlesError

LicenseSpecInit ==
    RewriteIdle /\ LicenseInit /\ VendorIdle /\ UpdateIdle /\ InteractiveIdle
    /\ RemoveIdle
    /\ DetectIdle
    /\ CleanupIdle
    /\ FetchIdle
    /\ UIIdle
    /\ SyncIdle
    /\ RunIdle

LicenseSpec == LicenseSpecInit /\ [][LicenseNext]_vars

(***************************************************************************)
(* The vendoring task: tasks/vendor.py.                                    *)
(***************************************************************************)
\* Path.name of the entry of the destination that holds the path.
TopName(path) ==
    SubSeq(path, 1,
           Least({k \in 1..(Len(path) + 1) :
                     k = Len(path) + 1 \/ Ch(path, k) = "/"}) - 1)

\* destination.iterdir(): the names of the entries of the destination.
Entries(tree) == {TopName(path) : path \in DOMAIN tree}

\* item.is_dir()
IsDir(tree, entry) == \E path \in DOMAIN tree : At(path, 1, entry \o "/")

Restrict(tree, paths) == [path \in paths |-> tree[path]]

\* remove_all: each item is unlinked, a directory with all that is under it.
remove_all(tree, items) ==
    Restrict(tree, {path \in DOMAIN tree :
                       \A it \in items : path # it /\ ~At(path, 1, it \o "/")})

\* destination.glob(pattern) for a pattern `*<suffix>`: the entries of the
\* destination whose name ends with the suffix.
Glob(tree, pattern) ==
    {entry \in Entries(tree) : EndsWith(entry, SubSeq(pattern, 2, Len(pattern)))}

\* The tree under the destination is a function from path to bytes.  A
\* directory is there when a path begins with `<directory>/`; the path
\* `<directory>/` itself is the directory's own entry, which keeps an
\* emptied directory in the tree.
DirsOf(tree) ==
    {SubSeq(path, 1, Len(path) - 1) :
        path \in {q \in DOMAIN tree : EndsWith(q, "/")}}

FilenamesOf(tree) == {path \in DOMAIN tree : ~EndsWith(path, "/")}

\* shutil.rmtree(os.path.join(dirpath, dirname))
rmtree(tree, dir) ==
    Restrict(tree, {path \in DOMAIN tree : ~At(path, 1, dir \o "/")})

\* compiled.match(rel) for the patterns `^<literal>`, `^<literal>$` and
\* `^<literal>[^/]*$`: match anchors at the start of the path only, `$`
\* at its end, and `[^/]*` takes what is left of one path segment.
Match(pattern, rel) ==
    LET body == SubSeq(pattern, 2, Len(pattern))
    IN  IF EndsWith(body, "[^/]*$")
        THEN LET lit == SubSeq(body, 1, Len(body) - 6)
             IN  /\ At(rel, 1, lit)
                 /\ ~Contains(SubSeq(rel, Len(lit) + 1, Len(rel)), "/")
        ELSE IF EndsWith(body, "$")
        THEN rel = SubSeq(body, 1, Len(body) - 1)
        ELSE At(rel, 1, body)

\* dirnames of os.walk: the directories of dirpath, in the order of the
\* listing.
Dirnames(tree, dirpath, order) ==
    LET Listed(dir) == dir \in DirsOf(tree) /\ Parent(dir) = dirpath
    IN  SelectSeq(order, Listed)

\* `for dirname in dirnames:` of remove_matching_regex, at index i of the
\* list.  dirnames.remove(dirname) shortens the list under the iterator,
\* which then steps to index i + 1 of the shortened list.
RECURSIVE DeleteMatchingFolders(_, _, _, _)
DeleteMatchingFolders(tree, pattern, dirnames, i) ==
    IF i > Len(dirnames) THEN [tree |-> tree, dirnames |-> dirnames]
    ELSE IF Match(pattern, dirnames[i])
         THEN DeleteMatchingFolders(
                  rmtree(tree, dirnames[i]), pattern,
                  SubSeq(dirnames, 1, i - 1) \o SubSeq(dirnames, i + 1, Len(dirnames)),
                  i + 1)
         ELSE DeleteMatchingFolders(tree, pattern, dirnames, i + 1)

\* `for filename in filenames:` of remove_matching_regex.
DeleteMatchingFiles(tree, pattern, dirpath) ==
    Restrict(tree, {path \in DOMAIN tree :
                       ~(/\ path \in FilenamesOf(tree)
                         /\ Parent(path) = dirpath
                         /\ Match(pattern, path))})

\* os.walk(path), top down: todo holds the directories yet to walk, the
\* next one first; the directories left in dirnames are walked next.
RECURSIVE Walk(_, _, _, _, _)
Walk(tree, pattern, order, todo, visited) ==
    IF todo = <<>> THEN [tree |-> tree, visited |-> visited]
    ELSE LET dirpath == Head(todo)
             folders == DeleteMatchingFolders(
                            tree, pattern, Dirnames(tree, dirpath, order), 1)
         IN  Walk(DeleteMatchingFiles(folders.tree, pattern, dirpath),
                  pattern, order, folders.dirnames \o Tail(todo),
                  Append(visited, dirpath))

\* remove_matching_regex(path, pattern), for the order in which the
\* directories are listed: the tree it leaves and the directories it walked.
remove_matching_regex(tree, pattern, order) ==
    Walk(tree, pattern, order, <<"">>, <<>>)

_looks_like_glob(pattern) ==
    Contains(pattern, "*") \/ Contains(pattern, "?") \/ Contains(pattern, "[")

\* The branch the loop of remove_unnecessary_items takes for a pattern.
KindOf(pattern) ==
    IF At(pattern, 1, "^") THEN "regex"
    ELSE IF _looks_like_glob(pattern) THEN "glob"
    ELSE "literal"

\* The body of `for pattern in drop_paths`.
DropPath(tree, pattern, order) ==
    IF KindOf(pattern) = "regex"
    THEN remove_matching_regex(tree, pattern, order).tree
    ELSE IF KindOf(pattern) = "glob" THEN remove_all(tree, Glob(tree, pattern))
    ELSE remove_all(tree, {pattern})

RECURSIVE DropPaths(_, _, _)
DropPaths(tree, patterns, order) ==
    IF patterns = <<>> THEN tree
    ELSE DropPaths(DropPath(tree, Head(patterns), order), Tail(patterns), order)

\* The two globs that open remove_unnecessary_items.
RemoveMetadata(tree) ==
    LET t1 == remove_all(tree, Glob(tree, "*.dist-info"))
    IN  remove_all(t1, Glob(t1, "*.egg-info"))

remove_unnecessary_items(tree, patterns, order) ==
    DropPaths(RemoveMetadata(tree), patterns, order)

\* The orders in which a directory may list the members of S.
Orders(S) ==
    {f \in [1..Cardinality(S) -> S] :
        \A i, j \in 1..Cardinality(S) : i # j => f[i] # f[j]}

\* A slip: the protected files are not looked at.
DetectItemUnprotected(tree, files_to_skip, entry) ==
    IF IsDir(tree, entry) THEN <<entry>>
    ELSE IF EndsWith(entry, ".pyi") THEN <<>>
    ELSE IF ~EndsWith(entry, ".py") THEN <<>>
    ELSE <<SubSeq(entry, 1, Len(entry) - 3)>>

\* The body of the loop of detect_vendored_libs: what one item appends.
DetectItem(tree, files_to_skip, entry) ==
    IF IsDir(tree, entry) THEN <<entry>>
    ELSE IF EndsWith(entry, ".pyi") THEN <<>>
    ELSE IF entry \notin files_to_skip
         THEN IF ~EndsWith(entry, ".py") THEN <<>>
              ELSE <<SubSeq(entry, 1, Len(entry) - 3)>>
         ELSE <<>>

\* The body of the loop of detect_vendored_libs: whether UI.warn is called.
DetectWarns(tree, files_to_skip, entry) ==
    /\ ~IsDir(tree, entry)
    /\ ~EndsWith(entry, ".pyi")
    /\ entry \notin files_to_skip
    /\ ~EndsWith(entry, ".py")

\* detect_vendored_libs, for the order in which iterdir lists the entries.
RECURSIVE detect_vendored_libs(_, _, _)
detect_vendored_libs(tree, files_to_skip, order) ==
    IF order = <<>> THEN <<>>
    ELSE DetectItem(tree, files_to_skip, Head(order))
             \o detect_vendored_libs(tree, files_to_skip, Tail(order))

\* for di in additional_substitutions: text = re.sub(...)
RECURSIVE SubstituteAll(_, _)
SubstituteAll(subs, txt) ==
    IF subs = <<>> THEN txt
    ELSE SubstituteAll(Tail(subs), UserSub(Head(subs), txt))

\* for lib in vendored_libs: the three rewritings and the check, from the
\* i-th library on; ok is FALSE when VendoringError is raised.
RECURSIVE RewriteLibs(_, _, _, _)
RewriteLibs(ns, libs, i, txt) ==
    IF i > Len(libs) THEN [ok |-> TRUE, text |-> txt]
    ELSE LET t1 == SubImport(ns, libs[i], txt)
             t2 == SubImportAs(ns, libs[i], t1)
         IN  IF SearchDotted(libs[i], t2) # 0
             THEN [ok |-> FALSE, text |-> t2]
             ELSE RewriteLibs(ns, libs, i + 1, SubFrom(ns, libs[i], t2))

\* rewrite_file_imports as a function of the bytes of the file: the text
\* to write, or ok = FALSE when VendoringError is raised before the write.
rewrite_file_imports(ns, libs, subs, bytes) ==
    LET t0 == SubstituteAll(subs, read_text(bytes))
    IN  IF ns # "" THEN RewriteLibs(ns, libs, 1, t0)
        ELSE [ok |-> TRUE, text |-> t0]

\* rewrite_imports: the files the walk hands to rewrite_file_imports.
PyFiles(tree) == {path \in DOMAIN tree : EndsWith(path, ".py")}

\* What pip install -t destination -r requirements leaves in the destination.
Downloaded(reqs) ==
    CASE reqs = "six-pkg.txt" ->
             ("six.py" :> "x = 1\n")
          @@ ("pkg/" :> "")
          @@ ("pkg/__init__.py" :> "import six\n")
          @@ ("pkg/api.py" :> "from six import name1\n")
          @@ ("six-1.0.dist-info/" :> "")
          @@ ("six-1.0.dist-info/METADATA" :> "Name: six\n")
          @@ ("bin/" :> "")
          @@ ("bin/tool" :> "#!/bin/sh\n")
      [] reqs = "six-app.txt" ->
             ("six.py" :> "x = 1\n")
          @@ ("app.py" :> "import six.moves\n")
          @@ ("util.py" :> "import six\n")
          @@ ("app.egg-info" :> "Name: app\n")
      [] reqs = "six-other.txt" ->
             ("six.py" :> "import other\n")
          @@ ("six.pyi" :> "x: int\n")
          @@ ("README.txt" :> "read\n")
          @@ ("notes.rst" :> "notes\n")
          @@ ("other/" :> "")
          @@ ("other/__init__.py" :> "import six as s\n")

Requirements == {"six-pkg.txt", "six-app.txt", "six-other.txt"}

DropPathLists == {<<>>, <<"bin">>, <<"^pkg/api", "*.rst">>}

\* A patch file: the file it changes, the content it was written against
\* and the content it leaves.
PatchInit == [name |-> "init.patch", file |-> "pkg/__init__.py",
              old |-> "import six\n", new |-> "import six\nimport six as s\n"]
PatchSix == [name |-> "six.patch", file |-> "six.py",
             old |-> "x = 1\n", new |-> "x = 2\n"]
PatchApp == [name |-> "app.patch", file |-> "app.py",
             old |-> "import six.moves\n", new |-> "from six import moves\n"]

PatchSets == {{}, {PatchInit}, {PatchInit, PatchSix}, {PatchApp}, {PatchSix, PatchApp}}

\* git apply: the patch applies when the file is as the patch expects it.
Applies(tree, patch) == patch.file \in DOMAIN tree /\ tree[patch.file] = patch.old

VendorStep(step, arg, ok) == [step |-> step, arg |-> arg, ok |-> ok]

\* The walk of rewrite_imports begins; vendor_libraries returns after it.
StartRewrite(tree) ==
    IF PyFiles(tree) = {} THEN [pc |-> "returned", patches |-> {}, files |-> {}]
    ELSE [pc |-> "rewrite", patches |-> {}, files |-> PyFiles(tree)]

\* A slip: the patches are never applied.
StartPatchesNever(tree) == StartRewrite(tree)

\* if config.patches_dir: apply_patches(...), then rewrite_imports(...)
StartPatches(tree) ==
    IF config.patches_dir # "" /\ patches # {}
    THEN [pc |-> "patch", patches |-> patches, files |-> {}]
    ELSE StartRewrite(tree)

VendorInit ==
    /\ config \in [requirements : Requirements,
                   drop_paths : DropPathLists,
                   protected_files : {{"README.txt"}},
                   patches_dir : {"", "patches"},
                   namespace : Namespaces,
                   substitute : {<<>>, <<[match |-> "name(\\d)", replace |-> "NAME\\1"]>>}]
    /\ patches \in PatchSets
    /\ config.patches_dir = "" => patches = {}
    /\ destination = [f \in {} |-> ""]
    /\ detected_libs = <<>>
    /\ pending_patches = {}
    /\ pending_files = {}
    /\ vpc = "download"
    /\ vlog = <<>>

\* download_libraries(config.requirements, destination)
DownloadLibraries ==
    /\ vpc = "download"
    /\ \E retcode \in {0, 1} :
          IF retcode # 0
          THEN /\ vpc' = "raised"
               /\ destination' = destination
               /\ vlog' = Append(vlog, VendorStep("download", config.requirements, FALSE))
          ELSE /\ vpc' = "remove"
               /\ destination' = Downloaded(config.requirements)
               /\ vlog' = Append(vlog, VendorStep("download", config.requirements, TRUE))
    /\ UNCHANGED <<config, patches, detected_libs, pending_patches, pending_files>>
    /\ UNCHANGED vendorFrame

\* remove_unnecessary_items(destination, config.drop_paths)
RemoveUnnecessaryItems ==
    /\ vpc = "remove"
    /\ \E order \in Orders(DirsOf(destination)) :
          destination' =
              remove_unnecessary_items(destination, config.drop_paths, order)
    /\ vpc' = "detect"
    /\ vlog' = Append(vlog, VendorStep("remove", "", TRUE))
    /\ UNCHANGED <<config, patches, detected_libs, pending_patches, pending_files>>
    /\ UNCHANGED vendorFrame

\* vendored_libs = detect_vendored_libs(destination, config.protected_files)
DetectVendoredLibs ==
    /\ vpc = "detect"
    /\ \E order \in Orders(Entries(destination)) :
          detected_libs' =
              detect_vendored_libs(destination, config.protected_files, order)
    /\ LET start == StartPatches(destination)
       IN  /\ vpc' = start.pc
           /\ pending_patches' = start.patches
           /\ pending_files' = start.files
    /\ vlog' = Append(vlog, VendorStep("detect", "", TRUE))
    /\ UNCHANGED <<config, patches, destination>>
    /\ UNCHANGED vendorFrame

\* apply_patches: _apply_patch for the patch the glob yields next.
ApplyPatch ==
    /\ vpc = "patch"
    /\ \E patch \in pending_patches :
          IF Applies(destination, patch)
          THEN /\ destination' = [destination EXCEPT ![patch.file] = patch.new]
               /\ pending_patches' = pending_patches \ {patch}
               /\ LET start == StartRewrite(destination')
                  IN  IF pending_patches' = {}
                      THEN vpc' = start.pc /\ pending_files' = start.files
                      ELSE vpc' = "patch" /\ pending_files' = pending_files
               /\ vlog' = Append(vlog, VendorStep("patch", patch.name, TRUE))
          ELSE /\ vpc' = "raised"
               /\ vlog' = Append(vlog, VendorStep("patch", patch.name, FALSE))
               /\ UNCHANGED <<destination, pending_patches, pending_files>>
    /\ UNCHANGED <<config, patches, detected_libs>>
    /\ UNCHANGED vendorFrame

\* rewrite_imports: rewrite_file_imports for the file the walk yields next.
RewriteFileImports ==
    /\ vpc = "rewrite"
    /\ \E file \in pending_files :
          LET r == rewrite_file_imports(config.namespace, detected_libs,
                                        config.substitute, destination[file])
          IN  IF r.ok
              THEN /\ destination' = [destination EXCEPT ![file] = write_text(r.text)]
                   /\ pending_files' = pending_files \ {file}
                   /\ vpc' = IF pending_files' = {} THEN "returned" ELSE "rewrite"
                   /\ vlog' = Append(vlog, VendorStep("rewrite", file, TRUE))
              ELSE /\ vpc' = "raised"
                   /\ vlog' = Append(vlog, VendorStep("rewrite", file, FALSE))
                   /\ UNCHANGED <<destination, pending_files>>
    /\ UNCHANGED <<config, patches, detected_libs, pending_patches>>
    /\ UNCHANGED vendorFrame

\* The tasks of run_sync, in its order.
TaskNames ==
    <<"Clean existing libraries", "Add vendored libraries", "Fetch licenses",
      "Generate static-typing stubs">>

\* run_sync has cleaned the destination and is in the task of
\* vendor_libraries.
SyncInit ==
    /\ sync_tasks = <<TaskNames[1], TaskNames[2]>>
    /\ spc = "vendor"

\* What an action of run_sync outside vendor_libraries leaves alone.
syncTaskFrame ==
    <<rewriteVars, licenseVars, updateVars, interactiveVars, removeVars,
      detectVars, cleanupVars, fetchVars, uiVars, runVars>>

\* with UI.task("Add vendored libraries"): the error of vendor_libraries
\* leaves the task and run_sync.
VendorTaskFails ==
    /\ spc = "vendor"
    /\ vpc = "raised"
    /\ spc' = "raised"
    /\ UNCHANGED sync_tasks
    /\ UNCHANGED vendorVars
    /\ UNCHANGED syncTaskFrame

\* A slip: the task of vendor_libraries swallows the error.
VendorLibrariesLeft == vpc \in {"returned", "raised"}

\* libraries = vendor_libraries(config) returned, and its task with it.
VendorLibrariesReturned == vpc = "returned"

\* with UI.task("Fetch licenses"): fetch_licenses(config)
FetchLicensesTask ==
    /\ spc = "vendor"
    /\ VendorLibrariesReturned
    /\ sync_tasks' = Append(sync_tasks, TaskNames[3])
    /\ \E ok \in BOOLEAN :
          /\ spc' = IF ok THEN "licensed" ELSE "raised"
          /\ destination' = IF ok
                            THEN ("six.LICENSE" :> "license\n") @@ destination
                            ELSE destination
    /\ UNCHANGED <<config, patches, detected_libs, pending_patches,
                   pending_files, vpc, vlog>>
    /\ UNCHANGED syncTaskFrame

\* determine_stub_files and write_stub, with no typing_stubs configured:
\* <lib>.pyi for every library.
StubsOf(libs) ==
    [path \in {libs[k] \o ".pyi" : k \in 1..Len(libs)} |->
        "from " \o SubSeq(path, 1, Len(path) - 4) \o " import *"]

\* with UI.task("Generate static-typing stubs"):
\*     generate_stubs(config, libraries)
GenerateStubsTask ==
    /\ spc = "licensed"
    /\ sync_tasks' = Append(sync_tasks, TaskNames[4])
    /\ destination' = StubsOf(detected_libs) @@ destination
    /\ spc' = "returned"
    /\ UNCHANGED <<config, patches, detected_libs, pending_patches,
                   pending_files, vpc, vlog>>
    /\ UNCHANGED syncTaskFrame

VendorNext ==
    \/ DownloadLibraries
    \/ RemoveUnnecessaryItems
    \/ DetectVendoredLibs
    \/ ApplyPatch
    \/ RewriteFileImports
    \/ VendorTaskFails
    \/ FetchLicensesTask
    \/ GenerateStubsTask

VendorSpecInit ==
    RewriteIdle /\ LicenseIdle /\ VendorInit /\ UpdateIdle /\ InteractiveIdle
    /\ RemoveIdle
    /\ DetectIdle
    /\ CleanupIdle
    /\ FetchIdle
    /\ UIIdle
    /\ SyncInit
    /\ RunIdle

VendorSpec == VendorSpecInit /\ [][VendorNext]_vars

(***************************************************************************)
(* remove_unnecessary_items, pattern by pattern.                           *)
(***************************************************************************)
\* The directories above a path, nearest first.
RECURSIVE Ancestors(_)
Ancestors(path) ==
    IF Parent(path) = "" THEN {} ELSE {Parent(path)} \cup Ancestors(Parent(path))

\* The tree that holds the files, and the directories they lie in.
TreeOf(files) ==
    LET folders == UNION {Ancestors(file) : file \in files}
    IN  [path \in files \cup {dir \o "/" : dir \in folders} |-> ""]

\* What the destination may hold when remove_unnecessary_items is called.
Layouts ==
    {{"six.py", "notes.rst"},
     {"six.py", "tests/a.py", "tests2/b.py", "six-1.0.dist-info/METADATA"},
     {"six.py", "tests/a.py", "tests/sub/d.py", "tools/c.py", "notes.rst"},
     {"six.py", "tests/a.py", "tests2/b.py", "tools/c.py", "app.egg-info"},
     {"tests/sub/d.py", "tests2/sub/e.py", "tools/c.py", "six-1.0.dist-info/METADATA"}}

\* The patterns a configuration may list.
DropPatterns == {"^tests", "^t[^/]*$", "^tests/sub$", "tools", "*.rst"}

RECURSIVE DropPathsOf(_)
DropPathsOf(n) ==
    IF n = 0 THEN {<<>>}
    ELSE LET shorter == DropPathsOf(n - 1)
         IN  shorter \cup {Append(l, pat) : l \in shorter, pat \in DropPatterns}

DropStep(kind, pattern, before, after, visited) ==
    [kind |-> kind, pattern |-> pattern, before |-> before, after |-> after,
     visited |-> visited]

\* `for pattern in drop_paths`: the loop ends or takes the next pattern.
DropLoopNext(i) == IF i > Len(drop_paths) THEN "returned" ELSE "drop"

RemoveInit ==
    /\ drop_paths \in DropPathsOf(MaxDropPaths)
    /\ \E files \in Layouts :
          /\ dest_tree = TreeOf(files)
          /\ tree_at_call = TreeOf(files)
    /\ drop_i = 1
    /\ dlog = <<>>
    /\ dpc = "metadata"

\* _remove_all(destination.glob("*.dist-info")) and the same for *.egg-info
RemoveMetadataDirectories ==
    /\ dpc = "metadata"
    /\ dest_tree' = RemoveMetadata(dest_tree)
    /\ dlog' = Append(dlog, DropStep("metadata", "", dest_tree, dest_tree', <<>>))
    /\ dpc' = DropLoopNext(drop_i)
    /\ UNCHANGED <<drop_paths, tree_at_call, drop_i>>
    /\ UNCHANGED removeFrame

\* if pattern.startswith("^"): _remove_matching_regex(destination, pattern)
RemoveMatchingRegex ==
    /\ dpc = "drop"
    /\ KindOf(drop_paths[drop_i]) = "regex"
    /\ \E order \in Orders(DirsOf(dest_tree)) :
          LET walk == remove_matching_regex(dest_tree, drop_paths[drop_i], order)
          IN  /\ dest_tree' = walk.tree
              /\ dlog' = Append(dlog, DropStep("regex", drop_paths[drop_i],
                                               dest_tree, walk.tree, walk.visited))
    /\ drop_i' = drop_i + 1
    /\ dpc' = DropLoopNext(drop_i')
    /\ UNCHANGED <<drop_paths, tree_at_call>>
    /\ UNCHANGED removeFrame

\* elif _looks_like_glob(pattern): _remove_all(destination.glob(pattern))
RemoveGlob ==
    /\ dpc = "drop"
    /\ KindOf(drop_paths[drop_i]) = "glob"
    /\ dest_tree' = remove_all(dest_tree, Glob(dest_tree, drop_paths[drop_i]))
    /\ dlog' = Append(dlog, DropStep("glob", drop_paths[drop_i],
                                     dest_tree, dest_tree', <<>>))
    /\ drop_i' = drop_i + 1
    /\ dpc' = DropLoopNext(drop_i')
    /\ UNCHANGED <<drop_paths, tree_at_call>>
    /\ UNCHANGED removeFrame

\* else: _remove_all([destination / location])
RemoveLocation ==
    /\ dpc = "drop"
    /\ KindOf(drop_paths[drop_i]) = "literal"
    /\ dest_tree' = remove_all(dest_tree, {drop_paths[drop_i]})
    /\ dlog' = Append(dlog, DropStep("literal", drop_paths[drop_i],
                                     dest_tree, dest_tree', <<>>))
    /\ drop_i' = drop_i + 1
    /\ dpc' = DropLoopNext(drop_i')
    /\ UNCHANGED <<drop_paths, tree_at_call>>
    /\ UNCHANGED removeFrame

RemoveNext ==
    \/ RemoveMetadataDirectories
    \/ RemoveMatchingRegex
    \/ RemoveGlob
    \/ RemoveLocation

RemoveSpecInit ==
    RewriteIdle /\ LicenseIdle /\ VendorIdle /\ UpdateIdle /\ InteractiveIdle
    /\ RemoveInit
    /\ DetectIdle
    /\ CleanupIdle
    /\ FetchIdle
    /\ UIIdle
    /\ SyncIdle
    /\ RunIdle

RemoveSpec == RemoveSpecInit /\ [][RemoveNext]_vars

(***************************************************************************)
(* detect_vendored_libs, item by item.                                     *)
(***************************************************************************)
\* The top-level items a destination may hold: directories and files.
TopDirectories == {"pkg", "six", "stubs.pyi"}
TopFiles == {"six.py", "__init__.py", "six.pyi", "README.rst", "vendor.txt"}

\* The lists of at most n different items, in the order iterdir yields them.
RECURSIVE ListingsOf(_)
ListingsOf(n) ==
    IF n = 0 THEN {<<>>}
    ELSE LET shorter == ListingsOf(n - 1)
         IN  shorter \cup
             UNION {{Append(l, entry) :
                        entry \in (TopDirectories \cup TopFiles)
                                      \ {l[k] : k \in 1..Len(l)}} :
                    l \in shorter}

\* The destination that holds the items.
TopTreeOf(items) ==
    [path \in {IF items[k] \in TopDirectories THEN items[k] \o "/" ELSE items[k] :
                  k \in 1..Len(items)} |-> ""]

ProtectedFileSets ==
    {{}, {"__init__.py", "vendor.txt"}, {"six.py", "README.rst", "six.pyi"}}

DetectInit ==
    /\ protected_files \in ProtectedFileSets
    /\ iterdir \in ListingsOf(MaxItems)
    /\ top_tree = TopTreeOf(iterdir)
    /\ retval = <<>>
    /\ warned = <<>>
    /\ detpc = "loop"

\* for item in destination.iterdir(): the body of the loop, for one item
DetectNextItem ==
    /\ detpc = "loop"
    /\ iterdir # <<>>
    /\ retval' = retval \o DetectItem(top_tree, protected_files, Head(iterdir))
    /\ warned' = IF DetectWarns(top_tree, protected_files, Head(iterdir))
                 THEN Append(warned, Head(iterdir))
                 ELSE warned
    /\ iterdir' = Tail(iterdir)
    /\ UNCHANGED <<protected_files, top_tree, detpc>>
    /\ UNCHANGED detectFrame

\* return retval
DetectReturn ==
    /\ detpc = "loop"
    /\ iterdir = <<>>
    /\ detpc' = "returned"
    /\ UNCHANGED <<protected_files, top_tree, iterdir, retval, warned>>
    /\ UNCHANGED detectFrame

DetectNext ==
    \/ DetectNextItem
    \/ DetectReturn

DetectSpecInit ==
    RewriteIdle /\ LicenseIdle /\ VendorIdle /\ UpdateIdle /\ InteractiveIdle
    /\ RemoveIdle
    /\ DetectInit
    /\ CleanupIdle
    /\ FetchIdle
    /\ UIIdle
    /\ SyncIdle
    /\ RunIdle

DetectSpec == DetectSpecInit /\ [][DetectNext]_vars

(***************************************************************************)
(* Cleaning up: tasks/cleanup.py.  determine_items_to_remove is a          *)
(* generator, so remove_all removes an item before the next one is         *)
(* yielded.                                                                *)
(***************************************************************************)
\* A slip: a directory named in files_to_skip is kept.
YieldsOnlyUnskipped(tree, files_to_skip, entry) == entry \notin files_to_skip

\* The body of the loop of determine_items_to_remove: whether the item is
\* yielded.
Yields(tree, files_to_skip, entry) ==
    IF IsDir(tree, entry) THEN TRUE
    ELSE entry \notin files_to_skip

\* The destination an earlier run left: the items, and a file in each
\* directory.
OldTreeOf(items) ==
    LET folders == {items[k] : k \in 1..Len(items)} \cap TopDirectories
    IN  TopTreeOf(items) @@ [path \in {dir \o "/baz.txt" : dir \in folders} |-> ""]

OldProtectedFileSets == ProtectedFileSets \cup {{"pkg", "__init__.py"}}

CleanupInit ==
    /\ old_exists \in BOOLEAN
    /\ old_protected \in OldProtectedFileSets
    /\ old_iter \in ListingsOf(MaxItems)
    /\ ~old_exists => old_iter = <<>>
    /\ old_tree = OldTreeOf(old_iter)
    /\ old_at_call = OldTreeOf(old_iter)
    /\ yielded = <<>>
    /\ cpc = "call"

\* if not destination.exists(): return
DetermineItemsToRemove ==
    /\ cpc = "call"
    /\ cpc' = IF old_exists THEN "loop" ELSE "returned"
    /\ UNCHANGED <<old_exists, old_tree, old_at_call, old_protected, old_iter,
                   yielded>>
    /\ UNCHANGED cleanupFrame

\* for item in destination.iterdir(): the item is yielded or not, and
\* remove_all removes what is yielded.
CleanupNextItem ==
    /\ cpc = "loop"
    /\ old_iter # <<>>
    /\ IF Yields(old_tree, old_protected, Head(old_iter))
       THEN /\ yielded' = Append(yielded, Head(old_iter))
            /\ old_tree' = remove_all(old_tree, {Head(old_iter)})
       ELSE UNCHANGED <<yielded, old_tree>>
    /\ old_iter' = Tail(old_iter)
    /\ UNCHANGED <<old_exists, old_at_call, old_protected, cpc>>
    /\ UNCHANGED cleanupFrame

\* The generator is exhausted and remove_all returns.
CleanupReturn ==
    /\ cpc = "loop"
    /\ old_iter = <<>>
    /\ cpc' = "returned"
    /\ UNCHANGED <<old_exists, old_tree, old_at_call, old_protected, old_iter,
                   yielded>>
    /\ UNCHANGED cleanupFrame

CleanupNext ==
    \/ DetermineItemsToRemove
    \/ CleanupNextItem
    \/ CleanupReturn

CleanupSpecInit ==
    RewriteIdle /\ LicenseIdle /\ VendorIdle /\ UpdateIdle /\ InteractiveIdle
    /\ RemoveIdle
    /\ DetectIdle
    /\ CleanupInit
    /\ FetchIdle
    /\ UIIdle
    /\ SyncIdle
    /\ RunIdle

CleanupSpec == CleanupSpecInit /\ [][CleanupNext]_vars

(***************************************************************************)
(* fetch_licenses: calls that follow one another share the download        *)
(* directory tempfile.gettempdir()/vendoring-downloads.  A call ends by    *)
(* returning, by raising, or with the process killed where it stands.      *)
(***************************************************************************)
\* The packages a requirements file may pin.
PinnedSets == {{"six"}, {"idna"}, {"six", "Foo-Bar"}}

\* The artifact pip download leaves for a package.
ArtifactOf(pkg) == pkg \o "-1.0.tar.gz"

NoDirectory == [exists |-> FALSE, artifacts |-> {}]

FetchInit ==
    /\ tmp_dir = NoDirectory
    /\ pinned \in PinnedSets
    /\ licensed = {}
    /\ artifacts_left = {}
    /\ calls = 1
    /\ fpc = "download"
    /\ ferror = ""

\* download_distributions(tmp_dir, requirements): pip download adds the
\* artifacts of the pinned packages to the directory, or fails, having
\* made the directory or not and having downloaded some artifacts or none.
DownloadDistributions ==
    /\ fpc = "download"
    /\ \E retcode \in {0, 1} :
          IF retcode = 0
          THEN /\ tmp_dir' = [exists |-> TRUE,
                              artifacts |-> tmp_dir.artifacts
                                                \cup {ArtifactOf(pkg) : pkg \in pinned}]
               /\ artifacts_left' = tmp_dir'.artifacts
               /\ fpc' = "extract"
               /\ ferror' = ""
          ELSE /\ \E made \in BOOLEAN, got \in SUBSET pinned :
                     tmp_dir' =
                         IF made \/ tmp_dir.exists
                         THEN [exists |-> TRUE,
                               artifacts |-> tmp_dir.artifacts
                                                 \cup {ArtifactOf(pkg) : pkg \in got}]
                         ELSE tmp_dir
               /\ artifacts_left' = {}
               /\ fpc' = "finally"
               /\ ferror' = "VendoringError"
    /\ UNCHANGED <<pinned, licensed, calls>>
    /\ UNCHANGED fetchFrame

\* for artifact in tmp_dir.iterdir():
\*     license_extractor.extract_license_from_artifact(artifact)
ExtractLicenseFromArtifact ==
    /\ fpc = "extract"
    /\ artifacts_left # {}
    /\ \E found \in artifacts_left, ok \in BOOLEAN :
          /\ artifacts_left' = artifacts_left \ {found}
          /\ licensed' = IF ok
                         THEN licensed \cup {_get_library_name_from_artifact_name(found)}
                         ELSE licensed
          /\ fpc' = IF ok THEN "extract" ELSE "finally"
          /\ ferror' = IF ok THEN "" ELSE "ValueError"
    /\ UNCHANGED <<tmp_dir, pinned, calls>>
    /\ UNCHANGED fetchFrame

\* The loop is over.
ExtractDone ==
    /\ fpc = "extract"
    /\ artifacts_left = {}
    /\ fpc' = "finally"
    /\ UNCHANGED <<tmp_dir, pinned, licensed, artifacts_left, calls, ferror>>
    /\ UNCHANGED fetchFrame

\* finally: shutil.rmtree(tmp_dir)
RemoveDownloads ==
    /\ fpc = "finally"
    /\ IF tmp_dir.exists
       THEN /\ tmp_dir' = NoDirectory
            /\ fpc' = IF ferror = "" THEN "returned" ELSE "raised"
            /\ ferror' = ferror
       ELSE /\ tmp_dir' = tmp_dir
            /\ fpc' = "raised"
            /\ ferror' = "FileNotFoundError"
    /\ UNCHANGED <<pinned, licensed, artifacts_left, calls>>
    /\ UNCHANGED fetchFrame

\* The process is killed while the call is under way: no finally runs.
Killed ==
    /\ fpc \in {"extract", "finally"}
    /\ fpc' = "killed"
    /\ UNCHANGED <<tmp_dir, pinned, licensed, artifacts_left, calls, ferror>>
    /\ UNCHANGED fetchFrame

\* A later call of fetch_licenses, with its own requirements file and
\* destination.
FetchLicensesAgain ==
    /\ fpc \in {"returned", "raised", "killed"}
    /\ calls < MaxCalls
    /\ calls' = calls + 1
    /\ pinned' \in PinnedSets
    /\ licensed' = {}
    /\ artifacts_left' = {}
    /\ fpc' = "download"
    /\ ferror' = ""
    /\ UNCHANGED tmp_dir
    /\ UNCHANGED fetchFrame

FetchNext ==
    \/ DownloadDistributions
    \/ ExtractLicenseFromArtifact
    \/ ExtractDone
    \/ RemoveDownloads
    \/ Killed
    \/ FetchLicensesAgain

FetchSpecInit ==
    RewriteIdle /\ LicenseIdle /\ VendorIdle /\ UpdateIdle /\ InteractiveIdle
    /\ RemoveIdle
    /\ DetectIdle
    /\ CleanupIdle
    /\ FetchInit
    /\ UIIdle
    /\ SyncIdle
    /\ RunIdle

FetchSpec == FetchSpecInit /\ [][FetchNext]_vars

(***************************************************************************)
(* The user interface: ui.py.  A call of _log is kept as the text, nl and  *)
(* erase it was given.                                                     *)
(***************************************************************************)
Echo(txt, nl, erase) == [text |-> txt, nl |-> nl, erase |-> erase]

_spinner_frames == <<"frame1", "frame2", "frame3", "frame4">>

\* "  " * n
RECURSIVE Spaces(_)
Spaces(n) == IF n = 0 THEN "" ELSE "  " \o Spaces(n - 1)

\* textwrap.indent(message, prefix) of a message of one line: a line of
\* white space only gets no prefix.
indent(message, prefix) ==
    IF \A k \in 1..Len(message) : IsSpace(Ch(message, k)) THEN message
    ELSE prefix \o message

\* click.style(text, fg=colour)
style(txt, fg) == "<" \o fg \o ">" \o txt \o "<reset>"

\* _UserInterface.log: the object after the call, and the calls of _log.
UI_log(self, message) ==
    LET msg == IF self._indentation # 0
               THEN indent(message, Spaces(self._indentation))
               ELSE message
        frame == IF self._spinner = 0 THEN 1 ELSE self._spinner
    IN  IF self._current_task # <<>> /\ ~self.verbose
        THEN [ui |-> [self EXCEPT !._spinner = (frame % Len(_spinner_frames)) + 1,
                                  !._logged_messages = Append(@, msg)],
              out |-> <<Echo(_spinner_frames[frame], FALSE, TRUE)>>]
        ELSE [ui |-> self, out |-> <<Echo(msg, TRUE, FALSE)>>]

\* _task_failed: the calls of _log.
_task_failed(self) ==
    IF self.verbose THEN <<>>
    ELSE <<Echo(" ", TRUE, FALSE)>>
             \o [k \in 1..Len(self._logged_messages) |->
                    Echo(self._logged_messages[k], TRUE, FALSE)]

\* _task_success: the calls of _log.
_task_success(self) ==
    IF self.verbose
    THEN UI_log([self EXCEPT !._indentation = @ + 1], style("Done!", "green")).out
    ELSE <<Echo(style("Done!", "green"), TRUE, FALSE)>>

\* A slip: the finally clause is the else clause.
task_exit_clearing_on_success(self, exc) ==
    LET left == [self EXCEPT !._indentation = @ - 1]
    IN  [ui |-> IF exc = ""
                THEN [left EXCEPT !._current_task = <<>>,
                                  !._logged_messages = <<>>,
                                  !._spinner = 0]
                ELSE left,
         out |-> IF exc = "VendoringError" THEN _task_failed(left)
                 ELSE IF exc = "" THEN _task_success(left)
                 ELSE <<>>]

\* task, from the end of the body on: the block `with self.indent()` is
\* left, then the except or the else clause runs, then the finally clause.
\* exc is the class of the exception the body raised, "" for none.
task_exit(self, exc) ==
    LET left == [self EXCEPT !._indentation = @ - 1]
    IN  [ui |-> [left EXCEPT !._current_task = <<>>,
                             !._logged_messages = <<>>,
                             !._spinner = 0],
         out |-> IF exc = "VendoringError" THEN _task_failed(left)
                 ELSE IF exc = "" THEN _task_success(left)
                 ELSE <<>>]

Messages == {"one", "two"}
BodyErrors == {"VendoringError", "ValueError"}

UIStep(op, exc) == [op |-> op, exc |-> exc]

UIInit ==
    /\ \E verbose \in BOOLEAN : UI = NewUI(verbose)
    /\ printed = <<>>
    /\ unwinding = ""
    /\ indented = FALSE
    /\ entered_at = 0
    /\ task_messages = <<>>
    /\ task_from = 0
    /\ last_op = UIStep("init", "")
    /\ tasks = 0
    /\ logged = 0

\* with UI.task(name): while no task is active
EnterTask ==
    /\ UI._current_task = <<>>
    /\ tasks < MaxTasks
    /\ \E name \in {TaskNames[(tasks % Len(TaskNames)) + 1]} :
          /\ printed' = Append(printed, Echo(name \o "... ", UI.verbose, FALSE))
          /\ UI' = [UI EXCEPT !._current_task = <<name>>,
                              !._indentation = @ + 1]
    /\ entered_at' = UI._indentation
    /\ task_messages' = <<>>
    /\ task_from' = Len(printed)
    /\ tasks' = tasks + 1
    /\ last_op' = UIStep("enter", "")
    /\ UNCHANGED <<unwinding, indented, logged>>
    /\ UNCHANGED uiFrame

\* with UI.task(name): inside the body of the active task
EnterNestedTask ==
    /\ UI._current_task # <<>>
    /\ unwinding = ""
    /\ unwinding' = "Exception: Only 1 task at a time."
    /\ last_op' = UIStep("nested", unwinding')
    /\ UNCHANGED <<UI, printed, indented, entered_at, task_messages, task_from,
                   tasks, logged>>
    /\ UNCHANGED uiFrame

\* UI.log(message)
Log ==
    /\ unwinding = ""
    /\ logged < MaxLogged
    /\ \E message \in Messages :
          LET r == UI_log(UI, message)
          IN  /\ UI' = r.ui
              /\ printed' = printed \o r.out
              /\ task_messages' =
                     IF UI._current_task # <<>>
                     THEN Append(task_messages,
                                 IF UI._indentation # 0
                                 THEN indent(message, Spaces(UI._indentation))
                                 ELSE message)
                     ELSE task_messages
    /\ logged' = logged + 1
    /\ last_op' = UIStep("log", "")
    /\ UNCHANGED <<unwinding, indented, entered_at, task_from, tasks>>
    /\ UNCHANGED uiFrame

\* with UI.indent(): entered in the body of a task, as utils.run does
IndentEnter ==
    /\ UI._current_task # <<>>
    /\ unwinding = ""
    /\ ~indented
    /\ indented' = TRUE
    /\ UI' = [UI EXCEPT !._indentation = @ + 1]
    /\ last_op' = UIStep("indent", "")
    /\ UNCHANGED <<printed, unwinding, entered_at, task_messages, task_from,
                   tasks, logged>>
    /\ UNCHANGED uiFrame

\* with UI.indent(): left, by the end of the block or by an exception
IndentExit ==
    /\ indented
    /\ indented' = FALSE
    /\ UI' = [UI EXCEPT !._indentation = @ - 1]
    /\ last_op' = UIStep("dedent", unwinding)
    /\ UNCHANGED <<printed, unwinding, entered_at, task_messages, task_from,
                   tasks, logged>>
    /\ UNCHANGED uiFrame

\* The body of the task raises.
BodyRaises ==
    /\ UI._current_task # <<>>
    /\ unwinding = ""
    /\ unwinding' \in BodyErrors
    /\ last_op' = UIStep("raise", unwinding')
    /\ UNCHANGED <<UI, printed, indented, entered_at, task_messages, task_from,
                   tasks, logged>>
    /\ UNCHANGED uiFrame

\* The body of the task ends, by its last statement or by an exception.
ExitTask ==
    /\ UI._current_task # <<>>
    /\ ~indented
    /\ LET r == task_exit(UI, IF unwinding = "" \/ unwinding \in BodyErrors
                              THEN unwinding ELSE "Exception")
       IN  /\ UI' = r.ui
           /\ printed' = printed \o r.out
    /\ unwinding' = ""
    /\ last_op' = UIStep("exit", unwinding)
    /\ UNCHANGED <<indented, entered_at, task_messages, task_from, tasks, logged>>
    /\ UNCHANGED uiFrame

UINext ==
    \/ EnterTask
    \/ EnterNestedTask
    \/ Log
    \/ IndentEnter
    \/ IndentExit
    \/ BodyRaises
    \/ ExitTask

UISpecInit ==
    RewriteIdle /\ LicenseIdle /\ VendorIdle /\ UpdateIdle /\ InteractiveIdle
    /\ RemoveIdle
    /\ DetectIdle
    /\ CleanupIdle
    /\ FetchIdle
    /\ UIInit
    /\ SyncIdle
    /\ RunIdle

UISpec == UISpecInit /\ [][UINext]_vars

(***************************************************************************)
(* The requirements file: tasks/update.py.                                 *)
(***************************************************************************)
IsLetter(c) ==
    \E k \in 1..Len(UpperCase) : Ch(UpperCase, k) = c \/ Ch(LowerCase, k) = c

\* [A-Z0-9\-._] under re.IGNORECASE
IsNameChar(c) == IsLetter(c) \/ IsDigit(c) \/ c \in {"-", ".", "_"}

\* [A-Z0-9\-._]* (greedy) from index i.
SkipNameChars(s, i) ==
    Least({j \in i..(Len(s) + 1) : j = Len(s) + 1 \/ ~IsNameChar(Ch(s, j))})

\* [0-9]* (greedy) from index i.
SkipDigits(s, i) ==
    Least({j \in i..(Len(s) + 1) : j = Len(s) + 1 \/ ~IsDigit(Ch(s, j))})

\* (?:\.[0-9]+)* (greedy) from index e.
RECURSIVE ReleaseEnd(_, _)
ReleaseEnd(s, e) ==
    IF e + 1 <= Len(s) /\ Ch(s, e) = "." /\ IsDigit(Ch(s, e + 1))
    THEN ReleaseEnd(s, SkipDigits(s, e + 1))
    ELSE e

\* VERSION_PATTERN at index p, for versions that are a release with an
\* optional leading v: v?[0-9]+(\.[0-9]+)*.  The index after the version,
\* 0 when there is none.
MatchVersion(s, p) ==
    LET q == IF p <= Len(s) /\ Ch(s, p) \in {"v", "V"} THEN p + 1 ELSE p
    IN  IF q <= Len(s) /\ IsDigit(Ch(s, q)) THEN ReleaseEnd(s, SkipDigits(s, q))
        ELSE 0

NoMatch == [ok |-> FALSE, name |-> "", version |-> "", prefix |-> "", suffix |-> ""]

\* _REGEX.match(line) and match.group("name", "version", "prefix", "suffix")
MatchPinned(line) ==
    LET p1 == SkipSpace(line, 1)
        p2 == SkipNameChars(line, p1 + 1)
        p3 == SkipSpace(line, p2)
        p4 == SkipSpace(line, p3 + 2)
        p5 == MatchVersion(line, p4)
    IN  IF /\ p1 <= Len(line)
           /\ IsLetter(Ch(line, p1))
           /\ At(line, p3, "==")
           /\ p5 # 0
        THEN [ok |-> TRUE,
              name |-> SubSeq(line, p1, p2 - 1),
              version |-> SubSeq(line, p4, p5 - 1),
              prefix |-> SubSeq(line, 1, p1 - 1),
              suffix |-> SubSeq(line, p5, Len(line))]
        ELSE NoMatch

\* PinnedPackageInfo.__str__
PinnedPackageInfoStr(p) == p.prefix \o p.name \o "==" \o p.version \o p.suffix

\* str.splitlines, for texts whose only line boundary is the line feed.
RECURSIVE splitlines(_)
splitlines(txt) ==
    IF txt = "" THEN <<>>
    ELSE LET e == Least({j \in 1..(Len(txt) + 1) :
                            j = Len(txt) + 1 \/ Ch(txt, j) = "\n"})
         IN  <<SubSeq(txt, 1, e - 1)>>
                 \o (IF e >= Len(txt) THEN <<>>
                     ELSE splitlines(SubSeq(txt, e + 1, Len(txt))))

\* parse_pinned_packages: the records of the lines, or the numbers of the
\* lines that failed (RequirementsError).
parse_pinned_packages(bytes) ==
    LET all_lines == splitlines(read_text(bytes))
        failed == {i \in 1..Len(all_lines) : ~MatchPinned(all_lines[i]).ok}
    IN  [failed |-> failed,
         retval |-> IF failed # {} THEN <<>>
                    ELSE [i \in 1..Len(all_lines) |-> MatchPinned(all_lines[i])]]

\* f.writelines(f"{p}\n" for p in packages)
RECURSIVE writelines(_)
writelines(ps) ==
    IF ps = <<>> THEN ""
    ELSE PinnedPackageInfoStr(Head(ps)) \o "\n" \o writelines(Tail(ps))

Digits == "0123456789"

DigitValue(c) == (CHOOSE k \in 1..Len(Digits) : Ch(Digits, k) = c) - 1

\* int() of a string of digits.
RECURSIVE ParseInt(_)
ParseInt(s) ==
    IF s = "" THEN 0
    ELSE ParseInt(SubSeq(s, 1, Len(s) - 1)) * 10 + DigitValue(Ch(s, Len(s)))

\* The numbers of the release that starts at index p of v.
RECURSIVE ReleaseFrom(_, _)
ReleaseFrom(v, p) ==
    LET e == SkipDigits(v, p)
    IN  <<ParseInt(SubSeq(v, p, e - 1))>>
            \o (IF e + 1 <= Len(v) /\ Ch(v, e) = "." /\ IsDigit(Ch(v, e + 1))
                THEN ReleaseFrom(v, e + 1) ELSE <<>>)

\* The release without its trailing zeros, which do not count in comparisons.
RECURSIVE StripZeros(_)
StripZeros(r) ==
    IF r # <<>> /\ r[Len(r)] = 0 THEN StripZeros(SubSeq(r, 1, Len(r) - 1)) ELSE r

\* packaging.version.Version(v), for a release with an optional leading v:
\* the key by which versions are compared.
Version(v) ==
    StripZeros(ReleaseFrom(v, IF Ch(v, 1) \in {"v", "V"} THEN 2 ELSE 1))

\* Version(a) < Version(b) on the keys: the order of tuples.
RECURSIVE VersionLess(_, _)
VersionLess(a, b) ==
    IF b = <<>> THEN FALSE
    ELSE IF a = <<>> THEN TRUE
    ELSE IF Head(a) # Head(b) THEN Head(a) < Head(b)
    ELSE VersionLess(Tail(a), Tail(b))

\* The lines of the requirements files of the model.
ReqLinePool ==
    { "six==1.0", "  six == 1.0 # pinned", "Foo-Bar== v2.1", "idna==3.4.0  ",
      "# vendored", "" }

RECURSIVE ReqFilesOf(_)
ReqFilesOf(n) ==
    IF n = 0 THEN {""}
    ELSE LET shorter == ReqFilesOf(n - 1)
         IN  shorter \cup {f \o l \o "\n" : f \in shorter, l \in ReqLinePool}

ReqFiles == ReqFilesOf(MaxReqLines)

\* What pypi.org answers for the latest version of a package.
LatestVersions == {"1.0", "3.5"}

UpdateInit ==
    /\ requirements \in ReqFiles
    /\ req_at_call = requirements
    /\ package \in {"", "six"}
    /\ packages = <<>>
    /\ ui = 1
    /\ upc = "parse"
    /\ uerror = ""

\* packages = parse_pinned_packages(requirements)
ParsePinnedPackages ==
    /\ upc = "parse"
    /\ LET parsed == parse_pinned_packages(requirements)
       IN  IF parsed.failed # {}
           THEN /\ upc' = "raised"
                /\ uerror' = "RequirementsError"
                /\ packages' = packages
           ELSE /\ upc' = IF parsed.retval = <<>> THEN "write" ELSE "latest"
                /\ uerror' = uerror
                /\ packages' = parsed.retval
    /\ UNCHANGED <<requirements, req_at_call, package, ui>>
    /\ UNCHANGED updateFrame

\* The body of `for pkg in packages`; the answer of the server is an input.
DetermineLatestRelease ==
    /\ upc = "latest"
    /\ LET pkg == packages[ui]
           next == IF ui + 1 <= Len(packages) THEN "latest" ELSE "write"
       IN  IF package = "" \/ pkg.name = package
           THEN \E answer \in LatestVersions \cup {"error"} :
                   IF answer = "error"
                   THEN /\ upc' = "raised"
                        /\ uerror' = "VendoringError"
                        /\ UNCHANGED <<packages, ui>>
                   ELSE /\ packages' =
                             IF Version(answer) # Version(pkg.version)
                             THEN [packages EXCEPT ![ui].version = answer]
                             ELSE packages
                        /\ ui' = ui + 1
                        /\ upc' = next
                        /\ uerror' = uerror
           ELSE /\ ui' = ui + 1
                /\ upc' = next
                /\ UNCHANGED <<packages, uerror>>
    /\ UNCHANGED <<requirements, req_at_call, package>>
    /\ UNCHANGED updateFrame

\* with requirements.open("w") as f: f.writelines(...)
WriteRequirements ==
    /\ upc = "write"
    /\ requirements' = writelines(packages)
    /\ upc' = "returned"
    /\ UNCHANGED <<req_at_call, package, packages, ui, uerror>>
    /\ UNCHANGED updateFrame

UpdateNext ==
    \/ ParsePinnedPackages
    \/ DetermineLatestRelease
    \/ WriteRequirements

UpdateSpecInit ==
    RewriteIdle /\ LicenseIdle /\ VendorIdle /\ UpdateInit /\ InteractiveIdle
    /\ RemoveIdle
    /\ DetectIdle
    /\ CleanupIdle
    /\ FetchIdle
    /\ UIIdle
    /\ SyncIdle
    /\ RunIdle

UpdateSpec == UpdateSpecInit /\ [][UpdateNext]_vars

(***************************************************************************)
(* The interactive update: interactive.py.                                 *)
(***************************************************************************)
\* x in q, for a list q.
InSeq(x, q) == \E i \in 1..Len(q) : q[i] = x

\* A slip: the package resumed from is not checked against skip and only.
determine_packages_unchecked(pkgs, resuming, skp, onl) ==
    IF onl # <<>>
    THEN IF \E i \in 1..Len(onl) : ~InSeq(onl[i], pkgs)
         THEN [error |-> TRUE, names |-> <<>>]
         ELSE [error |-> FALSE, names |-> onl]
    ELSE IF skp # <<>>
    THEN [error |-> FALSE, names |-> SelectSeq(pkgs, LAMBDA n : ~InSeq(n, skp))]
    ELSE [error |-> FALSE, names |-> pkgs]

\* determine_packages, on the names of packages: the names to update, or
\* error when VendoringError is raised.
determine_packages(pkgs, resuming, skp, onl) ==
    IF resuming # <<>> /\ InSeq(resuming[1].name, skp)
    THEN [error |-> TRUE, names |-> <<>>]
    ELSE IF resuming # <<>> /\ onl # <<>> /\ ~InSeq(resuming[1].name, onl)
    THEN [error |-> TRUE, names |-> <<>>]
    ELSE IF onl # <<>>
    THEN IF \E i \in 1..Len(onl) : ~InSeq(onl[i], pkgs)
         THEN [error |-> TRUE, names |-> <<>>]
         ELSE [error |-> FALSE, names |-> onl]
    ELSE IF skp # <<>>
    THEN [error |-> FALSE, names |-> SelectSeq(pkgs, LAMBDA n : ~InSeq(n, skp))]
    ELSE [error |-> FALSE, names |-> pkgs]

\* InteractionState.cleanup: the files it leaves and the exception it
\* raises; rmdir of a directory that holds other files raises OSError.
cleanup(files) ==
    IF files.state_file = <<>> THEN [fs |-> files, error |-> ""]
    ELSE LET unlinked == [files EXCEPT !.state_file = <<>>]
         IN  IF files.cache_others
             THEN [fs |-> unlinked, error |-> "OSError"]
             ELSE [fs |-> [unlinked EXCEPT !.cache_exists = FALSE], error |-> ""]

\* InteractionState.update: the version in memory, the requirements file
\* written from memory, the marker file written.
StateUpdated(st, name, version) ==
    [st EXCEPT !.packages[name].version = version, !.current_package = <<name>>]

FilesUpdated(files, st, name) ==
    [files EXCEPT
        !.requirements =
            writelines([i \in 1..Len(st.package_order) |->
                           st.packages[st.package_order[i]]]),
        !.cache_exists = TRUE,
        !.state_file = <<name>>]

RequirementsPath == "vendor.txt"
DestinationPath == "src/_vendor"

\* config.base_directory / "news" / (name + ".vendor.rst")
NewsPath(name) == "news/" \o name \o ".vendor.rst"

\* message = f"Upgrade {name} to {version}"
Message(name, version) == "Upgrade " \o name \o " to " \o version

\* The working tree, for git: the path -> content of the files it tracks.
Worktree(files) ==
    (RequirementsPath :> files.requirements)
        @@ (DestinationPath :> files.vendored) @@ files.news

\* git add path
Added(index, tree, path) ==
    [f \in DOMAIN index \cup {path} |-> IF f = path THEN tree[path] ELSE index[f]]

\* The paths a commit of the index holds: those staged that differ from HEAD.
Staged(repo) ==
    {f \in DOMAIN repo.index : f \notin DOMAIN repo.head \/ repo.head[f] # repo.index[f]}

\* The position after a package is done: the next package, or the end.
LoopNext(names, i) == IF i <= Len(names) THEN "query" ELSE "cleanup"

IStep(op, arg, ok) == [op |-> op, arg |-> arg, ok |-> ok]

\* The requirements file before any update, and after an earlier run
\* updated six.
BaseRequirements == "six==1.0\nFoo-Bar== v2.1\nidna == 3.4.0\n"
SixUpdated == "six==9.0\nFoo-Bar==v2.1\nidna==3.4.0\n"

\* The states an earlier run may have left: none; six written and not yet
\* committed; six committed; a marker for a package since removed.
ScenarioKinds == {"fresh", "in progress", "committed", "gone"}

ScenarioFiles(kind, others) ==
    [requirements |-> IF kind \in {"in progress", "committed"}
                      THEN SixUpdated ELSE BaseRequirements,
     vendored |-> IF kind = "committed" THEN SixUpdated ELSE BaseRequirements,
     news |-> IF kind = "committed"
              THEN (NewsPath("six") :> (Message("six", "9.0") \o "\n"))
              ELSE [f \in {} |-> ""],
     state_file |-> CASE kind = "fresh" -> <<>>
                      [] kind = "gone" -> <<"gone">>
                      [] OTHER -> <<"six">>,
     cache_exists |-> kind # "fresh" \/ others,
     cache_others |-> others]

\* HEAD: the requirements file is as first committed, since no run stages it.
ScenarioHead(kind) ==
    (RequirementsPath :> BaseRequirements)
        @@ (DestinationPath :> BaseRequirements)
        @@ ScenarioFiles(kind, FALSE).news

SkipLists == {<<>>, <<"six">>, <<"idna">>}
OnlyLists == {<<>>, <<"six">>, <<"idna", "six">>, <<"unknown">>}

InteractiveInit ==
    /\ skip \in SkipLists
    /\ only \in OnlyLists
    /\ from_start \in BOOLEAN
    /\ \E kind \in ScenarioKinds, others \in BOOLEAN :
          /\ fs = ScenarioFiles(kind, others)
          /\ git = [head |-> ScenarioHead(kind), index |-> ScenarioHead(kind),
                    commits |-> <<>>]
    /\ fs_at_call = fs
    /\ state = NoState
    /\ resuming_from = <<>>
    /\ package_names = <<>>
    /\ ii = 1
    /\ doing = NoUpdate
    /\ ipc = "init"
    /\ ierror = ""
    /\ ilog = <<>>

\* The parameters of interactive_updates, which no step changes.
interactiveInputs == <<skip, only, from_start, fs_at_call>>

\* The last record parsed for the name: {p.name: p for p in packages}.
RecordOf(parsed, name) ==
    parsed[CHOOSE i \in 1..Len(parsed) :
              /\ parsed[i].name = name
              /\ \A j \in (i + 1)..Len(parsed) : parsed[j].name # name]

\* state = InteractionState(config)
InteractionStateInit ==
    /\ ipc = "init"
    /\ LET parsed == parse_pinned_packages(fs.requirements)
       IN  IF parsed.failed # {}
           THEN /\ ipc' = "raised"
                /\ ierror' = "RequirementsError"
                /\ state' = state
                /\ ilog' = Append(ilog, IStep("read", "", FALSE))
           ELSE /\ state' =
                     [packages |->
                          [n \in {parsed.retval[i].name : i \in 1..Len(parsed.retval)}
                              |-> RecordOf(parsed.retval, n)],
                      package_order |->
                          [i \in 1..Len(parsed.retval) |-> parsed.retval[i].name],
                      current_package |-> fs.state_file]
                /\ ipc' = IF from_start THEN "from_start" ELSE "resuming_from"
                /\ ierror' = ierror
                /\ ilog' = Append(ilog, IStep("read", "", TRUE))
    /\ UNCHANGED <<fs, git, resuming_from, package_names, ii, doing>>
    /\ UNCHANGED interactiveInputs
    /\ UNCHANGED interactiveFrame

\* if from_start: state.cleanup()
FromStartCleanup ==
    /\ ipc = "from_start"
    /\ LET c == cleanup(fs)
       IN  /\ fs' = c.fs
           /\ ipc' = IF c.error # "" THEN "raised" ELSE "resuming_from"
           /\ ierror' = c.error
           /\ ilog' = Append(ilog, IStep("cleanup", "", c.error = ""))
    /\ UNCHANGED <<git, state, resuming_from, package_names, ii, doing>>
    /\ UNCHANGED interactiveInputs
    /\ UNCHANGED interactiveFrame

\* A slip: a marker that names no package of the file counts as no marker.
resuming_from_unchecked(st) ==
    IF st.current_package = <<>> \/ st.current_package[1] \notin DOMAIN st.packages
    THEN [error |-> FALSE, value |-> <<>>]
    ELSE [error |-> FALSE, value |-> <<st.packages[st.current_package[1]]>>]

\* InteractionState.resuming_from: the package resumed from (<<>> for
\* None), or error when VendoringError is raised.
resuming_from_property(st) ==
    IF st.current_package = <<>> THEN [error |-> FALSE, value |-> <<>>]
    ELSE IF st.current_package[1] \notin DOMAIN st.packages
    THEN [error |-> TRUE, value |-> <<>>]
    ELSE [error |-> FALSE, value |-> <<st.packages[st.current_package[1]]>>]

\* resuming_from = state.resuming_from
ResumingFrom ==
    /\ ipc = "resuming_from"
    /\ LET r == resuming_from_property(state)
       IN  IF r.error
           THEN /\ resuming_from' = resuming_from
                /\ ipc' = "raised"
                /\ ierror' = "VendoringError"
           ELSE /\ resuming_from' = r.value
                /\ ipc' = "determine"
                /\ ierror' = ierror
    /\ ilog' = Append(ilog, IStep("resuming_from", "", ipc' # "raised"))
    /\ UNCHANGED <<fs, git, state, package_names, ii, doing>>
    /\ UNCHANGED interactiveInputs
    /\ UNCHANGED interactiveFrame

\* package_names = determine_packages(...), and the branch on resuming_from
DeterminePackages ==
    /\ ipc = "determine"
    /\ LET r == determine_packages(state.package_order, resuming_from, skip, only)
       IN  IF r.error
           THEN /\ ipc' = "raised"
                /\ ierror' = "VendoringError"
                /\ UNCHANGED <<package_names, doing>>
           ELSE /\ package_names' = r.names
                /\ ierror' = ierror
                /\ IF resuming_from # <<>>
                   THEN /\ doing' = [name |-> resuming_from[1].name,
                                     version |-> resuming_from[1].version,
                                     resume |-> TRUE]
                        /\ ipc' = "sync"
                   ELSE /\ doing' = doing
                        /\ ipc' = LoopNext(r.names, 1)
    /\ ilog' = Append(ilog, IStep("determine", "", ipc' # "raised"))
    /\ UNCHANGED <<fs, git, state, resuming_from, ii>>
    /\ UNCHANGED interactiveInputs
    /\ UNCHANGED interactiveFrame

\* latest_version = determine_latest_release(package_info.name), and the
\* test of the version; the answer of the server is an input.
QueryLatest ==
    /\ ipc = "query"
    /\ LET name == package_names[ii]
           info == state.packages[name]
       IN  \E answer \in {"1.0", "9.0", "error"} :
              IF answer = "error"
              THEN /\ ipc' = "raised"
                   /\ ierror' = "VendoringError"
                   /\ ilog' = Append(ilog, IStep("query", name, FALSE))
                   /\ UNCHANGED <<ii, doing>>
              ELSE /\ ierror' = ierror
                   /\ ilog' = Append(ilog, IStep("query", name, TRUE))
                   /\ IF ~VersionLess(Version(info.version), Version(answer))
                      THEN /\ ii' = ii + 1
                           /\ ipc' = LoopNext(package_names, ii + 1)
                           /\ doing' = doing
                      ELSE /\ ii' = ii
                           /\ ipc' = "update"
                           /\ doing' = [name |-> name, version |-> answer,
                                        resume |-> FALSE]
    /\ UNCHANGED <<fs, git, state, resuming_from, package_names>>
    /\ UNCHANGED interactiveInputs
    /\ UNCHANGED interactiveFrame

\* state.update(package_info.name, latest_version)
StateUpdate ==
    /\ ipc = "update"
    /\ state' = StateUpdated(state, doing.name, doing.version)
    /\ fs' = FilesUpdated(fs, state', doing.name)
    /\ ipc' = "sync"
    /\ ilog' = Append(ilog, IStep("update", doing.name, TRUE))
    /\ UNCHANGED <<git, resuming_from, package_names, ii, doing, ierror>>
    /\ UNCHANGED interactiveInputs
    /\ UNCHANGED interactiveFrame

\* do_one_update: run_sync(config); the vendor pass may fail.
RunSync ==
    /\ ipc = "sync"
    /\ \E ok \in BOOLEAN :
          /\ fs' = IF ok THEN [fs EXCEPT !.vendored = fs.requirements] ELSE fs
          /\ ipc' = IF ok THEN "news" ELSE "raised"
          /\ ierror' = IF ok THEN ierror ELSE "VendoringError"
          /\ ilog' = Append(ilog, IStep("sync", doing.name, ok))
    /\ UNCHANGED <<git, state, resuming_from, package_names, ii, doing>>
    /\ UNCHANGED interactiveInputs
    /\ UNCHANGED interactiveFrame

\* do_one_update: news_file.write_text(message + "\n")
WriteNews ==
    /\ ipc = "news"
    /\ \E ok \in BOOLEAN :
          /\ fs' = IF ok
                   THEN [fs EXCEPT !.news =
                            (NewsPath(doing.name) :>
                                 (Message(doing.name, doing.version) \o "\n")) @@ @]
                   ELSE fs
          /\ ipc' = IF ok THEN "add" ELSE "raised"
          /\ ierror' = IF ok THEN ierror ELSE "FileNotFoundError"
          /\ ilog' = Append(ilog, IStep("news", doing.name, ok))
    /\ UNCHANGED <<git, state, resuming_from, package_names, ii, doing>>
    /\ UNCHANGED interactiveInputs
    /\ UNCHANGED interactiveFrame

\* do_one_update: git("add", str(news_file))
GitAdd ==
    /\ ipc = "add"
    /\ \E ok \in BOOLEAN :
          /\ git' = IF ok
                    THEN [git EXCEPT !.index =
                             Added(git.index, Worktree(fs), NewsPath(doing.name))]
                    ELSE git
          /\ ipc' = IF ok THEN "commit" ELSE "raised"
          /\ ierror' = IF ok THEN ierror ELSE "CalledProcessError"
          /\ ilog' = Append(ilog, IStep("add", doing.name, ok))
    /\ UNCHANGED <<fs, state, resuming_from, package_names, ii, doing>>
    /\ UNCHANGED interactiveInputs
    /\ UNCHANGED interactiveFrame

\* do_one_update: git("commit", "-m", message); git commits what is staged
\* and fails when nothing is.
GitCommit ==
    /\ ipc = "commit"
    /\ \E answer \in BOOLEAN :
          LET ok == answer /\ Staged(git) # {}
          IN  /\ git' = IF ok
                        THEN [head |-> git.index, index |-> git.index,
                              commits |-> Append(git.commits,
                                  [message |-> Message(doing.name, doing.version),
                                   files |-> Staged(git)])]
                        ELSE git
              /\ ii' = IF ok /\ ~doing.resume THEN ii + 1 ELSE ii
              /\ ipc' = IF ok THEN LoopNext(package_names, ii') ELSE "raised"
              /\ ierror' = IF ok THEN ierror ELSE "CalledProcessError"
              /\ ilog' = Append(ilog, IStep("commit", doing.name, ok))
    /\ UNCHANGED <<fs, state, resuming_from, package_names, doing>>
    /\ UNCHANGED interactiveInputs
    /\ UNCHANGED interactiveFrame

\* UI.log("All done, removing marker file"); state.cleanup()
FinalCleanup ==
    /\ ipc = "cleanup"
    /\ LET c == cleanup(fs)
       IN  /\ fs' = c.fs
           /\ ipc' = IF c.error # "" THEN "raised" ELSE "returned"
           /\ ierror' = c.error
           /\ ilog' = Append(ilog, IStep("cleanup", "", c.error = ""))
    /\ UNCHANGED <<git, state, resuming_from, package_names, ii, doing>>
    /\ UNCHANGED interactiveInputs
    /\ UNCHANGED interactiveFrame

InteractiveNext ==
    \/ InteractionStateInit
    \/ FromStartCleanup
    \/ ResumingFrom
    \/ DeterminePackages
    \/ QueryLatest
    \/ StateUpdate
    \/ RunSync
    \/ WriteNews
    \/ GitAdd
    \/ GitCommit
    \/ FinalCleanup

InteractiveSpecInit ==
    RewriteIdle /\ LicenseIdle /\ VendorIdle /\ UpdateIdle /\ InteractiveInit
    /\ RemoveIdle
    /\ DetectIdle
    /\ CleanupIdle
    /\ FetchIdle
    /\ UIIdle
    /\ SyncIdle
    /\ RunIdle

InteractiveSpec == InteractiveSpecInit /\ [][InteractiveNext]_vars

(***************************************************************************)
(* Physical lines of a text, for the statements about lines.               *)
(***************************************************************************)
NumLines(t) ==
    CountNewlines(t, Len(t) + 1)
        + (IF t # "" /\ Ch(t, Len(t)) # "\n" THEN 1 ELSE 0)

\* The i-th physical line of t (1-based), with its line feed.
Line(t, i) ==
    LET b == Least({p \in 1..(Len(t) + 1) : CountNewlines(t, p) = i - 1})
        e == Least({p \in b..Len(t) : Ch(t, p) = "\n" \/ p = Len(t)})
    IN  SubSeq(t, b, e)

\* The physical line l holds the statement `import <lib>.<rest>`.
IsDottedImport(lib, l) ==
    LET q == SkipSpace(l, 1)
        r == q + Len("import " \o lib \o ".")
    IN  At(l, q, "import " \o lib \o ".") /\ r <= Len(l) /\ ~IsSpace(Ch(l, r))

\* The user's rules applied one after the other, in list order.
RECURSIVE ApplyRules(_, _)
ApplyRules(rules, t) ==
    IF rules = <<>> THEN t ELSE ApplyRules(Tail(rules), UserSub(Head(rules), t))

RewriteOps == {"import", "import_as", "check", "from"}

(***************************************************************************)
(* C1: with a non-empty namespace, the VendoringError raised for an        *)
(* `import <lib>.<rest>` without `as` names the file and the exact 1-based *)
(* number of the line that holds the offending statement.                  *)
(* The code counts the line feeds before match.start(), and the match      *)
(* starts at the \s* before the statement: white-space-only lines right    *)
(* before the statement make the reported number too small.                *)
(***************************************************************************)
C1_ErrorNamesExactLine ==
    pc = "raised" =>
        /\ error.file = item
        /\ error.line \in 1..NumLines(text)
        /\ IsDottedImport(vendored_libs[li], Line(text, error.line))

(***************************************************************************)
(* C2: with a non-empty namespace (and no user rule), every physical line  *)
(* of a supported form is turned into its namespaced form, the rest of the *)
(* line kept: `import <lib>` bare, with a comment or with `as`;            *)
(* `from <lib> import`; `from <lib>.<sub> import`;                         *)
(* `import <lib>.<rest> as <alias>`.                                       *)
(***************************************************************************)
\* l, after its first n characters.
After(l, n) == SubSeq(l, n + 1, Len(l))

IsImportForm(lib, l) ==
    \/ l = "import " \o lib
    \/ At(l, 1, "import " \o lib \o "\n")
    \/ At(l, 1, "import " \o lib \o " ")

IsFromForm(lib, l) ==
    At(l, 1, "from " \o lib \o " import ") \/ At(l, 1, "from " \o lib \o ".")

IsImportAsForm(lib, l) ==
    At(l, 1, "import " \o lib \o ".") /\ Contains(l, " as ")

Namespaced(ns, lib, l) ==
    IF IsImportAsForm(lib, l)
    THEN "import " \o ns \o "." \o lib \o After(l, Len("import " \o lib))
    ELSE IF IsImportForm(lib, l)
    THEN "from " \o ns \o " import " \o lib \o After(l, Len("import " \o lib))
    ELSE "from " \o ns \o "." \o lib \o After(l, Len("from " \o lib))

C2_SupportedFormsNamespaced ==
    (pc = "returned" /\ namespace # "" /\ additional_substitutions = <<>>) =>
        LET before == read_text(source)
            after == disk[item]
        IN  /\ NumLines(after) = NumLines(before)
            /\ \A i \in 1..NumLines(before) :
                 \A k \in 1..Len(vendored_libs) :
                    LET lib == vendored_libs[k]
                        l == Line(before, i)
                    IN  (IsImportForm(lib, l) \/ IsFromForm(lib, l)
                            \/ IsImportAsForm(lib, l))
                        => Line(after, i) = Namespaced(namespace, lib, l)

C2_Witness ==
    /\ pc = "returned"
    /\ namespace = "ns"
    /\ additional_substitutions = <<>>
    /\ source = "import six.moves as m\nfrom six.moves import x\n"
    /\ disk[item] = "import ns.six.moves as m\nfrom ns.six.moves import x\n"

(***************************************************************************)
(* C3: with no user rule, only the lines that import a vendored library as *)
(* a whole token change: a file that names no vendored library is left     *)
(* byte-identical, and a line that imports or mentions `sixty_four` is     *)
(* left as it was.                                                         *)
(* read_text reads "\r\n" and "\r" as "\n" and write_text writes "\n", so  *)
(* a file with such line ends is rewritten with other bytes.               *)
(***************************************************************************)
NoReference(bytes) ==
    \A k \in 1..Len(vendored_libs) : ~Contains(bytes, vendored_libs[k])

SixtyFourLines ==
    {"import sixty_four\n", "from sixty_four import x\n", "from x import sixty_four\n"}

OnlyVendoredImportsChange ==
    /\ NoReference(source) => disk[item] = source
    /\ \A i \in 1..NumLines(source) :
          Line(source, i) \in SixtyFourLines
              => Line(disk[item], i) = Line(source, i)

C3_OnlyVendoredImportsChange ==
    (pc = "returned" /\ additional_substitutions = <<>>) =>
        OnlyVendoredImportsChange

\* The same statement for the files whose lines all end in "\n": it holds.
C3_HoldsWithoutCarriageReturn ==
    (pc = "returned" /\ additional_substitutions = <<>> /\ ~Contains(source, "\r"))
        => OnlyVendoredImportsChange

C5_SubstitutionsFirst ==
    /\ \A i \in 1..Len(log) :
          /\ log[i].op = "substitute" => log[i].arg = i - 1
          /\ log[i].op \in RewriteOps \cup {"write"}
                => i > Len(additional_substitutions) + 1
    /\ (pc = "import" /\ li = 1) =>
          text = ApplyRules(additional_substitutions, read_text(source))

\* Both rules have made an import, one rewritten and one found unrewritable.
C5_Witness ==
    /\ pc = "raised"
    /\ namespace = "ns"
    /\ Len(additional_substitutions) = 2
    /\ source = "import sixty_four\nimport six as s\n"
    /\ text = "from ns import six\nimport six.moves\n"
    /\ error.statement = "import six.moves"

(***************************************************************************)
(* C6: vendor_libraries runs its steps in this order, each starting only   *)
(* after the one before it finished without error: download, remove the    *)
(* metadata directories and the drop paths, detect the vendored libraries, *)
(* apply the patches (only when a patches directory is configured),        *)
(* rewrite the imports.  Every patch is applied before the imports of any  *)
(* file are rewritten, and a failure in a step prevents all later steps.   *)
(***************************************************************************)
Rank(step) ==
    CASE step = "download" -> 1
      [] step = "remove" -> 2
      [] step = "detect" -> 3
      [] step = "patch" -> 4
      [] step = "rewrite" -> 5

Took(step, arg, n) ==
    \E j \in 1..n : vlog[j] = [step |-> step, arg |-> arg, ok |-> TRUE]

C6_StepsInOrder ==
    /\ \A i \in 1..(Len(vlog) - 1) :
          /\ vlog[i].ok
          /\ Rank(vlog[i].step) <= Rank(vlog[i + 1].step)
    /\ \A i \in 1..Len(vlog) :
          /\ i <= 3 => Rank(vlog[i].step) = i
          /\ i > 3 => Rank(vlog[i].step) > 3
          /\ vlog[i].step = "patch" =>
                 /\ config.patches_dir # ""
                 /\ \E p \in patches : p.name = vlog[i].arg
          /\ vlog[i].step = "rewrite" =>
                 (config.patches_dir # "" =>
                      \A p \in patches : Took("patch", p.name, i - 1))
    /\ vpc = "raised" <=> (vlog # <<>> /\ ~vlog[Len(vlog)].ok)
    /\ vpc = "returned" =>
          /\ Took("download", config.requirements, 1)
          /\ config.patches_dir # "" =>
                 \A p \in patches : Took("patch", p.name, Len(vlog))
          /\ \A f \in PyFiles(destination) : Took("rewrite", f, Len(vlog))

\* Two patches were applied, then the patched files were rewritten.
C6_Witness ==
    /\ vpc = "returned"
    /\ config.patches_dir = "patches"
    /\ patches = {PatchInit, PatchSix}
    /\ config.namespace = "ns"
    /\ destination["six.py"] = "x = 2\n"
    /\ destination["pkg/__init__.py"] = "from ns import six\nfrom ns import six as s\n"

(***************************************************************************)
(* C7: get_license_destination resolves the destination in strict          *)
(* priority order: the directory named as the library, if it exists; else  *)
(* the directory named as the lowercased library, if it exists; else the   *)
(* directory of the override for the library; else the flat file           *)
(* <library>.<filename>.  An existing directory wins over an override.     *)
(***************************************************************************)
C7_DestinationPriority ==
    dest # NoDestination =>
        LET l == dest.library
            f == dest.filename
        IN  /\ l \in dirs => dest.path = l \o "/" \o f
            /\ (l \notin dirs /\ lower(l) \in dirs) => dest.path = lower(l) \o "/" \o f
            /\ (l \notin dirs /\ lower(l) \notin dirs /\ l \in DOMAIN license_directories)
                  => dest.path = license_directories[l] \o "/" \o f
            /\ (l \notin dirs /\ lower(l) \notin dirs /\ l \notin DOMAIN license_directories)
                  => dest.path = l \o "." \o f

\* The library's directory exists and an override names another one.
C7_Witness ==
    /\ dest.library = "Foo"
    /\ "Foo" \in dirs
    /\ "Foo" \in DOMAIN license_directories
    /\ license_directories["Foo"] = "licenses"
    /\ dest.path = "Foo/LICENSE"
    /\ "Foo/LICENSE" \in DOMAIN dest_files

(***************************************************************************)
(* C8: when an artifact has no license candidate and no fallback URL is    *)
(* configured for its library, the extraction fails with a VendoringError  *)
(* (the class the front end catches and reports).                          *)
(* use_license_fallback raises ValueError, which cli.sync does not catch.  *)
(***************************************************************************)
C8_MissingLicenseIsVendoringError ==
    ( /\ lpc = "raised"
      /\ ArchiveKind(artifact) \in {"zip", "tar"}
      /\ licenses = <<>>
      /\ _get_library_name_from_artifact_name(artifact) \notin DOMAIN license_fallback_urls )
    => /\ raised \in VendoringErrors
       /\ exit \in {"", "show_error"}

(***************************************************************************)
(* C9: find_licenses yields exactly the members whose name contains        *)
(* LICENSE or COPYING and whose path has no `/test` segment.               *)
(* As claimed: a member is excluded only when a path segment is `test`,    *)
(* not when a segment merely begins with `test`.                           *)
(* As amended: a member is excluded when its name contains "/test", that   *)
(* is when a path segment after the first begins with `test`.              *)
(***************************************************************************)
NamesLicense(name) ==
    \E i \in 1..Len(name) : At(name, i, "LICENSE") \/ At(name, i, "COPYING")

\* A path segment after the first begins with `test`.
SegmentBeginsWithTest(name) ==
    \E i \in 2..Len(name) : Ch(name, i - 1) = "/" /\ At(name, i, "test")

Opened == lpc \in {"extract", "fallback", "returned"}

C9_ExcludedOnlyByTestSegment ==
    Opened =>
        licenses = SelectSeq(members, LAMBDA m :
                       NamesLicense(m.name) /\ ~IsTestPathWholeSegment(m.name))

C9_ExcludedByTestPrefix ==
    Opened =>
        licenses = SelectSeq(members, LAMBDA m :
                       NamesLicense(m.name) /\ ~SegmentBeginsWithTest(m.name))

\* A member under tests/ is left out, one under a leading test/ is yielded.
C9_Witness ==
    /\ Opened
    /\ Len(members) = 2
    /\ members[1].name = "Foo-1.0/tests/LICENSE"
    /\ members[2].name = "test/COPYING"
    /\ Len(licenses) = 1
    /\ licenses[1].name = "test/COPYING"

(***************************************************************************)
(* C10: after extract_license_from_artifact succeeds on an archive with    *)
(* several candidates, for each candidate there is a file in the           *)
(* destination that holds its bytes, also when two candidates have the     *)
(* same base name.                                                         *)
(* The destination is made of the base name only: the second candidate of  *)
(* the same base name is written over the first.                           *)
(***************************************************************************)
C10_EveryCandidateExtracted ==
    (lpc = "returned" /\ Len(licenses) >= 1) =>
        \A i \in 1..Len(licenses) :
            \E f \in DOMAIN dest_files : dest_files[f] = licenses[i].data

(***************************************************************************)
(* C11: for every requirements line accepted by parse_pinned_packages,     *)
(* serializing the parsed record with its version unchanged reproduces the *)
(* line character for character, the white space around `==` included.     *)
(* The record does not keep the white space around `==`, and __str__       *)
(* writes a bare `==`.                                                     *)
(***************************************************************************)
C11_RoundTrip ==
    upc = "returned" =>
        LET before == splitlines(req_at_call)
            after == splitlines(requirements)
        IN  \A i \in 1..Len(packages) :
                packages[i].version = MatchPinned(before[i]).version
                    => after[i] = before[i]

(***************************************************************************)
(* The steps of the interactive update that reach outside the process:     *)
(* the version query, the writes and the commands.                         *)
(***************************************************************************)
Effects == {"query", "update", "sync", "news", "add", "commit"}

Did(ops) == \E i \in 1..Len(ilog) : ilog[i].op \in ops

\* The names of the packages of the requirements file as it was at the call.
NamesAtCall ==
    LET lines == splitlines(fs_at_call.requirements)
    IN  {MatchPinned(lines[i]).name : i \in 1..Len(lines)}

(***************************************************************************)
(* C12: if the marker file names a package that is not in the requirements *)
(* file, interactive_updates fails with a VendoringError before it queries *)
(* a version, before a vendor pass or a commit, and before it changes any  *)
(* file (requirements, marker, destination).                               *)
(* As claimed, for every run: with from_start the marker file is deleted   *)
(* by cleanup, and rmdir may raise OSError, before the error about the     *)
(* marker is raised.                                                       *)
(* As amended: the statement holds for the runs without from_start.        *)
(***************************************************************************)
C12_FailsBeforeAnyEffect ==
    (fs_at_call.state_file # <<>> /\ fs_at_call.state_file[1] \notin NamesAtCall)
    => /\ ~Did(Effects)
       /\ fs = fs_at_call
       /\ git.commits = <<>>
       /\ ipc \in {"init", "from_start", "resuming_from", "raised"}
       /\ ipc = "raised" => ierror = "VendoringError"

\* C12, as amended: in a run without from_start, a marker that names a package
\* the requirements file does not hold makes the run fail with VendoringError
\* before any query, vendor pass, commit or change of a file.
C12_FailsBeforeAnyEffectWithoutFromStart ==
    (/\ ~from_start
     /\ fs_at_call.state_file # <<>>
     /\ fs_at_call.state_file[1] \notin NamesAtCall)
    => /\ ~Did(Effects \cup {"cleanup", "determine"})
       /\ fs = fs_at_call
       /\ git.commits = <<>>
       /\ git.index = git.head
       /\ ipc \in {"init", "resuming_from", "raised"}
       /\ ipc = "raised" =>
              /\ ierror = "VendoringError"
              /\ ilog[Len(ilog)] = IStep("resuming_from", "", FALSE)

\* The run failed on the marker of a package that the file does not hold.
C12_Witness ==
    /\ ~from_start
    /\ fs_at_call.state_file = <<"gone">>
    /\ "gone" \notin NamesAtCall
    /\ ipc = "raised"
    /\ ierror = "VendoringError"

(***************************************************************************)
(* C13: whenever a step of the interactive update fails, the run aborts at *)
(* once and the marker file names the last package whose update was fully  *)
(* committed, never a package whose version was written to the             *)
(* requirements file but whose commit did not complete.                    *)
(* state.update writes the marker together with the requirements file,     *)
(* before the vendor pass and the commit.                                  *)
(***************************************************************************)
C13_MarkerNamesCommitted ==
    ipc = "raised" =>
        /\ ~ilog[Len(ilog)].ok
        /\ \A i \in 1..(Len(ilog) - 1) : ilog[i].ok
        /\ fs.state_file # <<>> =>
              \A i \in 1..Len(ilog) :
                  ilog[i] = IStep("update", fs.state_file[1], TRUE)
                      => \E j \in (i + 1)..Len(ilog) :
                             ilog[j] = IStep("commit", fs.state_file[1], TRUE)

(***************************************************************************)
(* C14: with from_start an existing marker is ignored: no package is       *)
(* resumed from, no update is applied again before the iteration, and a    *)
(* marker that names a package absent from the requirements file does not  *)
(* make the run fail.                                                      *)
(* cleanup deletes the file and leaves _current_package, read before it,   *)
(* in memory.                                                              *)
(***************************************************************************)
C14_FromStartIgnoresMarker ==
    from_start =>
        /\ resuming_from = <<>>
        /\ ~doing.resume
        /\ ~(ipc = "raised" /\ ilog[Len(ilog)].op = "resuming_from")

(***************************************************************************)
(* C15: the packages are processed in the order in which they appear in    *)
(* the requirements file, for every only and skip: the order of the names  *)
(* in only or skip never changes the order of processing.                  *)
(* determine_packages returns the list only itself.                        *)
(***************************************************************************)
Position(name) ==
    CHOOSE k \in 1..Len(state.package_order) : state.package_order[k] = name

C15_FileOrder ==
    \A i, j \in 1..Len(ilog) :
        (i < j /\ ilog[i].op = "query" /\ ilog[j].op = "query")
            => Position(ilog[i].arg) < Position(ilog[j].arg)

(***************************************************************************)
(* C16: determine_packages validates before any package is processed:      *)
(* when the package resumed from is in skip, or only is non-empty and does *)
(* not hold it, or a name of only is not in the requirements file, the     *)
(* call raises VendoringError and no version query, file change or commit  *)
(* happens.                                                                *)
(***************************************************************************)
Rejected ==
    \/ /\ resuming_from # <<>>
       /\ \/ InSeq(resuming_from[1].name, skip)
          \/ only # <<>> /\ ~InSeq(resuming_from[1].name, only)
    \/ \E i \in 1..Len(only) : only[i] \notin NamesAtCall

C16_ResumeValidatedFirst ==
    (Rejected /\ Did({"determine"})) =>
        /\ ipc = "raised"
        /\ ierror = "VendoringError"
        /\ ilog[Len(ilog)] = IStep("determine", "", FALSE)
        /\ ~Did(Effects)
        /\ fs.requirements = fs_at_call.requirements
        /\ fs.vendored = fs_at_call.vendored
        /\ fs.news = fs_at_call.news
        /\ ~from_start => fs = fs_at_call
        /\ git.commits = <<>>
        /\ git.index = git.head

\* The run resumes from six, which the skip list names.
C16_Witness ==
    /\ ipc = "raised"
    /\ ~from_start
    /\ resuming_from # <<>>
    /\ resuming_from[1].name = "six"
    /\ skip = <<"six">>
    /\ ilog[Len(ilog)] = IStep("determine", "", FALSE)

(***************************************************************************)
(* C17: for each package whose latest version is newer than the pinned     *)
(* one, the interactive update creates exactly one commit, and that commit *)
(* holds both the change to the requirements file and the fragment         *)
(* <package>.vendor.rst.                                                   *)
(* Only the fragment is staged: the commit does not hold the requirements  *)
(* file.                                                                   *)
(***************************************************************************)
CommitsUpTo(i) ==
    Cardinality({j \in 1..i : ilog[j].op = "commit" /\ ilog[j].ok})

C17_OneCommitWithBoth ==
    \A i \in 1..Len(ilog) :
        (ilog[i].op = "commit" /\ ilog[i].ok
            /\ \E j \in 1..(i - 1) : ilog[j] = IStep("update", ilog[i].arg, TRUE))
        => /\ {RequirementsPath, NewsPath(ilog[i].arg)}
                  \subseteq git.commits[CommitsUpTo(i)].files
           /\ \A k \in 1..Len(ilog) :
                  (ilog[k].op = "commit" /\ ilog[k].ok /\ ilog[k].arg = ilog[i].arg)
                      => k = i

(***************************************************************************)
(* C18: a run without from_start deletes the marker file only after every  *)
(* remaining package was processed without error; then it deletes the      *)
(* marker and removes the cache directory when that is empty, and a cache  *)
(* directory that holds other files is left in place without failing the   *)
(* run.                                                                    *)
(* rmdir raises OSError on a directory that is not empty.                  *)
(***************************************************************************)
C18_MarkerDeletedAtEnd ==
    (~from_start /\ Did({"cleanup"})) =>
        /\ \A i \in 1..(Len(ilog) - 1) : ilog[i].ok
        /\ ii > Len(package_names)
        /\ ipc = "returned"
        /\ fs.state_file = <<>>
        /\ fs.cache_exists = fs.cache_others


\* The path of an entry relative to the destination, in POSIX style.
Rel(path) ==
    IF EndsWith(path, "/") THEN SubSeq(path, 1, Len(path) - 1) ELSE path

\* The relative paths of the files and directories of a tree.
Rels(tree) == {Rel(path) : path \in DOMAIN tree}

\* The entry is rel, or lies under it.
Under(path, rel) == Rel(path) = rel \/ At(path, 1, rel \o "/")

\* The steps of the run so far that called remove_matching_regex.
RegexSteps == {k \in 1..Len(dlog) : dlog[k].kind = "regex"}

\* The top-level entry rel is named by the glob `*<suffix>`.
GlobNames(pattern, rel) ==
    ~Contains(rel, "/") /\ EndsWith(rel, SubSeq(pattern, 2, Len(pattern)))

\* The entry rel is named by a pattern of drop_paths, classified as the
\* claim says, or by one of the two metadata globs.
NamedForRemoval(rel) ==
    \/ GlobNames("*.dist-info", rel)
    \/ GlobNames("*.egg-info", rel)
    \/ \E k \in 1..Len(drop_paths) :
          LET pattern == drop_paths[k]
          IN  IF SubSeq(pattern, 1, 1) = "^" THEN Match(pattern, rel)
              ELSE IF \E c \in {"*", "?", "["} : Contains(pattern, c)
                   THEN GlobNames(pattern, rel)
              ELSE rel = pattern

\* C19: remove_unnecessary_items takes a pattern that starts with `^` as
\* a regular expression, otherwise one that contains `*`, `?` or `[` as a
\* glob, otherwise as a literal path; and when it returns, the destination
\* holds exactly the entries it held at the call that are neither named by
\* a pattern or a metadata glob nor under a directory so named.
C19_RemovesExactlyTheMatching ==
    /\ \A k \in 1..Len(dlog) :
          dlog[k].kind # "metadata" =>
              dlog[k].kind =
                  IF SubSeq(dlog[k].pattern, 1, 1) = "^" THEN "regex"
                  ELSE IF \E c \in {"*", "?", "["} : Contains(dlog[k].pattern, c)
                       THEN "glob"
                  ELSE "literal"
    /\ dpc = "returned" =>
          DOMAIN dest_tree =
              {path \in DOMAIN tree_at_call :
                  ~\E rel \in Rels(tree_at_call) :
                      NamedForRemoval(rel) /\ Under(path, rel)}

\* C20: after remove_matching_regex returns, no file or directory whose
\* relative path matches the pattern remains, and a directory that matched
\* went with all that was under it, and neither it nor a directory under it
\* was walked.
C20_NoMatchRemains ==
    \A k \in RegexSteps :
        /\ \A rel \in Rels(dlog[k].after) : ~Match(dlog[k].pattern, rel)
        /\ \A dir \in DirsOf(dlog[k].before) :
              Match(dlog[k].pattern, dir) =>
                  /\ \A path \in DOMAIN dlog[k].after : ~Under(path, dir)
                  /\ \A j \in 1..Len(dlog[k].visited) :
                        ~Under(dlog[k].visited[j] \o "/", dir)


\* The number of times x is in the sequence.
Count(seq, x) == Cardinality({k \in 1..Len(seq) : seq[k] = x})

\* The top-level files of the destination detect_vendored_libs was called on.
TopFilesOf(tree) == {entry \in Entries(tree) : entry \in DOMAIN tree}

\* The top-level directories of that destination.
TopDirectoriesOf(tree) == Entries(tree) \ TopFilesOf(tree)

\* The files that name a library: `.py` files that are not protected.
LibraryFiles ==
    {file \in TopFilesOf(top_tree) :
        /\ SubSeq(file, Len(file) - 2, Len(file)) = ".py"
        /\ file \notin protected_files}

\* The files that are neither stubs, nor protected, nor `.py` files.
UnexpectedFiles ==
    {file \in TopFilesOf(top_tree) :
        /\ SubSeq(file, Len(file) - 3, Len(file)) # ".pyi"
        /\ SubSeq(file, Len(file) - 2, Len(file)) # ".py"
        /\ file \notin protected_files}

\* C21: detect_vendored_libs returns, once for each item that yields it, the
\* name of every top-level directory and the name without `.py` of every
\* top-level `.py` file that is not protected, and nothing else; it warns once for every other file that
\* is neither a `.pyi` file nor protected, for no other item, and it always
\* returns.
C21_DetectsExactly ==
    /\ detpc \in {"idle", "loop", "returned"}
    /\ detpc = "returned" =>
          /\ \A name \in Entries(top_tree) \cup {retval[k] : k \in 1..Len(retval)}
                             \cup {SubSeq(file, 1, Len(file) - 3) : file \in LibraryFiles} :
                Count(retval, name) =
                    Cardinality({dir \in TopDirectoriesOf(top_tree) : dir = name})
                    + Cardinality({file \in LibraryFiles :
                                      SubSeq(file, 1, Len(file) - 3) = name})
          /\ \A file \in UnexpectedFiles : Count(warned, file) = 1
          /\ Len(warned) = Cardinality(UnexpectedFiles)

\* A destination with a directory, a library file, a protected `.py` file
\* and an unexpected file was gone through.
C21_Witness ==
    /\ detpc = "returned"
    /\ TopDirectoriesOf(top_tree) # {}
    /\ LibraryFiles # {}
    /\ UnexpectedFiles # {}
    /\ \E file \in TopFilesOf(top_tree) \cap protected_files : TRUE


\* The steps of do_one_update that run an external command: the vendor pass
\* runs pip and git apply through run(), the other two run git.
CommandSteps == {"sync", "add", "commit"}

\* C22: an external command that exits with a non-zero code makes the
\* operation fail with a VendoringError (which carries the exit code), and
\* one that exits with zero raises nothing.
C22_FailedCommandIsVendoringError ==
    \A i \in 1..Len(ilog) :
        ilog[i].op \in CommandSteps =>
            IF ilog[i].ok
            THEN i = Len(ilog) => ipc # "raised"
            ELSE /\ i = Len(ilog)
                 /\ ipc = "raised"
                 /\ ierror = "VendoringError"


\* C23: determine_items_to_remove yields every top-level directory whatever
\* the skip list holds and every top-level file whose name is not in the
\* skip list, each once and nothing else, and nothing for a destination that
\* does not exist; after cleanup_existing_vendored the destination holds
\* exactly the top-level files that the protected-files list names.
C23_CleanupKeepsProtectedFiles ==
    cpc = "returned" =>
        /\ ~old_exists => yielded = <<>> /\ old_tree = old_at_call
        /\ \A entry \in Entries(old_at_call) :
              Count(yielded, entry) =
                  IF entry \in TopDirectoriesOf(old_at_call)
                         \/ entry \notin old_protected
                  THEN 1 ELSE 0
        /\ \A k \in 1..Len(yielded) : yielded[k] \in Entries(old_at_call)
        /\ DOMAIN old_tree = TopFilesOf(old_at_call) \cap old_protected

\* A destination with a directory that the list names, a protected file and
\* another file was cleaned up.
C23_Witness ==
    /\ cpc = "returned"
    /\ old_exists
    /\ TopDirectoriesOf(old_at_call) \cap old_protected # {}
    /\ TopFilesOf(old_at_call) \cap old_protected # {}
    /\ TopFilesOf(old_at_call) \ old_protected # {}


\* C24: a call of fetch_licenses writes license files of the packages its
\* own requirements file pins and of no other, and when a call has ended,
\* by returning or by raising, the shared download directory is gone.
C24_OnlyPinnedLicenses ==
    /\ licensed \subseteq pinned
    /\ fpc \in {"returned", "raised"} => ~tmp_dir.exists


\* C25: entering a task while another is active raises `Only 1 task at a
\* time.` and leaves the active task as it is; after a task ends, by
\* success or by any exception, no task is active, the buffered messages
\* and the spinner are cleared, the indentation is what it was before the
\* task, and a task can be entered again.
C25_OneTaskAtATime ==
    /\ last_op.op = "nested" =>
          /\ unwinding = "Exception: Only 1 task at a time."
          /\ UI._current_task # <<>>
    /\ last_op.op = "exit" =>
          /\ UI._current_task = <<>>
          /\ UI._logged_messages = <<>>
          /\ UI._spinner = 0
          /\ UI._indentation = entered_at
          /\ tasks < MaxTasks => ENABLED EnterTask

\* A task that buffered a message and showed the spinner ended by an
\* exception that is no VendoringError.
C25_Witness ==
    /\ last_op = UIStep("exit", "ValueError")
    /\ ~UI.verbose
    /\ task_messages # <<>>

\* What was printed since the task was entered.
PrintedSince == SubSeq(printed, task_from + 1, Len(printed))

\* The messages among the calls of _log: whole lines that are neither the
\* line that clears the spinner nor the line of success.
PrintedMessages(echoes) ==
    LET IsMessage(echo) ==
            /\ echo.nl
            /\ ~echo.erase
            /\ echo.text \notin {" ", style("Done!", "green")}
        lines == SelectSeq(echoes, IsMessage)
    IN  [k \in 1..Len(lines) |-> lines[k].text]

\* C26: in non-verbose mode a message logged inside a task is not printed
\* when it is logged; when the task succeeds none of its messages is
\* printed, and when the task fails all of them are printed, in the order
\* logged, before the error leaves the task.
C26_MessagesShownOnFailure ==
    ~UI.verbose =>
        /\ (last_op.op = "log" /\ UI._current_task # <<>>) =>
              /\ printed[Len(printed)].erase
              /\ PrintedMessages(PrintedSince) = <<>>
        /\ last_op = UIStep("exit", "") => PrintedMessages(PrintedSince) = <<>>
        /\ (last_op.op = "exit" /\ last_op.exc # "") =>
              PrintedMessages(PrintedSince) = task_messages


\* C27: import rewriting is decided per physical line: a line
\* `import <lib>.<rest>` with no `as` clause on that same line is reported
\* as unrewritable whatever the next line begins with, so a run that
\* returns met no such line and left none rewritten.
C27_DecidedPerLine ==
    (pc = "returned" /\ namespace # "" /\ additional_substitutions = <<>>) =>
        \A i \in 1..NumLines(read_text(source)) :
            \A k \in 1..Len(vendored_libs) :
                IsDottedImport(vendored_libs[k], Line(read_text(source), i))
                    => Contains(Line(read_text(source), i), " as ")


\* The content of a file when the rewrite step begins: what pip left, or
\* what the patch of the file left.
PreRewrite(file) ==
    IF \E patch \in patches : patch.file = file
    THEN (CHOOSE patch \in patches : patch.file = file).new
    ELSE Downloaded(config.requirements)[file]

\* C28: when rewrite_file_imports raises for a file, nothing follows it: it
\* is the last step of vendor_libraries, which has raised, run_sync is in the
\* task of vendor_libraries or has raised, the offending file and every file
\* not yet visited have the content they had when the rewrite step began,
\* and neither the license task nor the stubs task was entered.
C28_RewriteFailureStopsThePass ==
    \A i \in 1..Len(vlog) :
        (vlog[i].step = "rewrite" /\ ~vlog[i].ok) =>
            /\ i = Len(vlog)
            /\ vpc = "raised"
            /\ spc \in {"vendor", "raised"}
            /\ spc = "vendor" => ENABLED VendorTaskFails
            /\ vlog[i].arg \in pending_files
            /\ \A file \in pending_files : destination[file] = PreRewrite(file)
            /\ sync_tasks = <<TaskNames[1], TaskNames[2]>>

\* The error has left run_sync after a file was rewritten, with another
\* file not yet visited.
C28_Witness ==
    /\ vlog # <<>>
    /\ vlog[Len(vlog)].step = "rewrite"
    /\ ~vlog[Len(vlog)].ok
    /\ spc = "raised"
    /\ \E file \in PyFiles(destination) : destination[file] # PreRewrite(file)
    /\ pending_files \ {vlog[Len(vlog)].arg} # {}


\* The earlier run committed the update of the package being re-applied:
\* HEAD holds its news fragment with the message of this update.
AlreadyCommitted ==
    /\ NewsPath(doing.name) \in DOMAIN git.head
    /\ git.head[NewsPath(doing.name)] = Message(doing.name, doing.version) \o "\n"

\* The resumed package was committed again before the step at position j.
ReappliedBefore(j) ==
    \E i \in 1..(j - 1) :
        /\ ilog[i].op = "commit"
        /\ ilog[i].ok
        /\ ilog[i].arg = resuming_from[1].name

\* C29: when a marker is loaded, the update of the resumed package is
\* committed again before the latest version of any package is queried; it
\* leaves the requirements file as it was; and when the earlier run had
\* already committed that update, the commit of the re-applied update can
\* succeed, so that the run goes on to the remaining packages.
C29_ResumeIsIdempotent ==
    /\ \A j \in 1..Len(ilog) :
          (ilog[j].op = "query" /\ resuming_from # <<>>) => ReappliedBefore(j)
    /\ (doing.resume /\ ipc \in {"sync", "news", "add", "commit"})
          => fs.requirements = fs_at_call.requirements
    /\ (doing.resume /\ ipc = "commit" /\ AlreadyCommitted)
          => ENABLED (GitCommit /\ ipc' # "raised")


(***************************************************************************)
(* run (utils.py): the command runs as a process of its own, which writes  *)
(* lines to a pipe and exits when it chooses; run polls the process and     *)
(* reads the pipe in turns.                                                 *)
(***************************************************************************)

\* str.rstrip(): the text without the white space at its end.
RECURSIVE rstrip(_)
rstrip(s) ==
    IF Len(s) > 0 /\ IsSpace(Ch(s, Len(s)))
    THEN rstrip(SubSeq(s, 1, Len(s) - 1))
    ELSE s

\* The lines a process may write, each with its line feed.
OutputLines == {"\n", "one\n", "two \n"}

RunInit ==
    /\ written = <<>>
    /\ stdout = <<>>
    /\ returncode = <<>>
    /\ run_retcode = <<>>
    /\ run_line = ""
    /\ run_logged = <<>>
    /\ rpc = "start"

\* UI.log(f"Running {cmd}"); p = subprocess.Popen(command, ...)
Popen ==
    /\ rpc = "start"
    /\ run_logged' = Append(run_logged, "Running cmd")
    /\ rpc' = "poll"
    /\ UNCHANGED <<written, stdout, returncode, run_retcode, run_line>>
    /\ UNCHANGED runFrame

\* The process writes a line to its standard output or standard error,
\* which are the same pipe.
ProcessWrites ==
    /\ rpc \notin {"idle", "start"}
    /\ returncode = <<>>
    /\ Len(written) < MaxWritten
    /\ \E out \in OutputLines :
          /\ written' = Append(written, out)
          /\ stdout' = Append(stdout, out)
    /\ UNCHANGED <<returncode, run_retcode, run_line, run_logged, rpc>>
    /\ UNCHANGED runFrame

\* The process exits; what it wrote stays in the pipe.
ProcessExits ==
    /\ rpc \notin {"idle", "start"}
    /\ returncode = <<>>
    /\ \E code \in {0, 1} : returncode' = <<code>>
    /\ UNCHANGED <<written, stdout, run_retcode, run_line, run_logged, rpc>>
    /\ UNCHANGED runFrame

\* retcode = p.poll()
Poll ==
    /\ rpc = "poll"
    /\ run_retcode' = returncode
    /\ rpc' = "readline"
    /\ UNCHANGED <<written, stdout, returncode, run_line, run_logged>>
    /\ UNCHANGED runFrame

\* line = p.stdout.readline().rstrip(): the next line of the pipe once
\* there is one, the empty string at the end of the file.
Readline ==
    /\ rpc = "readline"
    /\ \/ /\ stdout # <<>>
          /\ run_line' = rstrip(Head(stdout))
          /\ stdout' = Tail(stdout)
       \/ /\ stdout = <<>>
          /\ returncode # <<>>
          /\ run_line' = ""
          /\ stdout' = stdout
    /\ rpc' = "log"
    /\ UNCHANGED <<written, returncode, run_retcode, run_logged>>
    /\ UNCHANGED runFrame

\* if line: with UI.indent(): UI.log(line)
\* if retcode is not None: break
LogLine ==
    /\ rpc = "log"
    /\ run_logged' = IF run_line # "" THEN Append(run_logged, run_line)
                     ELSE run_logged
    /\ rpc' = IF run_retcode # <<>> THEN "test" ELSE "poll"
    /\ UNCHANGED <<written, stdout, returncode, run_retcode, run_line>>
    /\ UNCHANGED runFrame

\* if retcode: raise VendoringError(...)
RunReturn ==
    /\ rpc = "test"
    /\ rpc' = IF run_retcode[1] # 0 THEN "raised" ELSE "returned"
    /\ UNCHANGED <<written, stdout, returncode, run_retcode, run_line, run_logged>>
    /\ UNCHANGED runFrame

RunNext ==
    \/ Popen
    \/ ProcessWrites
    \/ ProcessExits
    \/ Poll
    \/ Readline
    \/ LogLine
    \/ RunReturn

RunSpecInit ==
    /\ RewriteIdle
    /\ LicenseIdle
    /\ VendorIdle
    /\ UpdateIdle
    /\ InteractiveIdle
    /\ RemoveIdle
    /\ DetectIdle
    /\ CleanupIdle
    /\ FetchIdle
    /\ UIIdle
    /\ SyncIdle
    /\ RunInit

RunSpec == RunSpecInit /\ [][RunNext]_vars

\* The lines of a sequence that are not empty once stripped, stripped.
RECURSIVE NonEmptyLines(_)
NonEmptyLines(lines) ==
    IF lines = <<>> THEN <<>>
    ELSE IF rstrip(Head(lines)) = "" THEN NonEmptyLines(Tail(lines))
         ELSE <<rstrip(Head(lines))>> \o NonEmptyLines(Tail(lines))

\* C30: when run has returned or raised, it has passed to UI.log, after the
\* line that names the command, every non-empty line the process wrote, in
\* the order written.
C30_EveryLineLogged ==
    rpc \in {"returned", "raised"} =>
        Tail(run_logged) = NonEmptyLines(written)

=============================================================================
